---- MODULE Spec2Model ----
(***************************************************************************)
(* Model of the instrumented audio mutex of audio_utils/mutex.h:           *)
(* atomic_stack, thread_mutex_info, mutex_stat and mutex_impl with its     *)
(* lock_scoped_stat / cv_wait_scoped_stat helpers.                         *)
(*                                                                         *)
(* Every thread runs calls of lock, try_lock, unlock and condition wait on *)
(* a small set of mutexes.  A call is split at the points where the code   *)
(* touches state other threads can see (the OS mutex, the statistics), so  *)
(* that calls of different threads interleave as they do in the program.   *)
(***************************************************************************)
EXTENDS Integers, Sequences, FiniteSets, TLC

\* ------------------------------------------------------------------ bounds
MaxCalls == 4          \* calls thread 1 issues in one behaviour
StackDepth == 2        \* stands for mutex_stack_depth_ (16 in mutex.h:394)
ScopeCalls == 3        \* calls thread 1 issues in a behaviour with wait scopes

\* ------------------------------------------------------- program constants
kInvalidTid == -1      \* mutex.h:477
NullHandle == 0        \* nullptr as a MutexHandle

Threads == {1, 2}                    \* tids
MutexOrderOf == <<0, 1, 2, 2>>       \* order_ of mutex handle 1..4
Mutexes == DOMAIN MutexOrderOf
Orders == {MutexOrderOf[m] : m \in Mutexes}
WaitTimes == {2}                     \* systemTime() - time_, in ns
Timeouts == {-1, 0, 1}               \* timeout_ns of try_lock

\* Calls each thread issues in one behaviour: thread 1 runs the long call
\* sequences, the other thread contends with one call.
CallBudget == [t \in Threads |-> IF t = 1 THEN MaxCalls ELSE 1]

\* Two other mixes of calls: one thread alone with two calls more, enough to
\* hold more mutexes than StackDepth and release them all; and every thread
\* with the two calls of one lock/unlock pair (or of two nested locks).
SoloBudget == [t \in Threads |-> IF t = 1 THEN MaxCalls + 2 ELSE 0]
PairBudget == [t \in Threads |-> 2]
Budgets == {CallBudget, SoloBudget, PairBudget}

VARIABLES
    m_,                  \* per mutex: tid owning the std::mutex, or kInvalidTid
    pairs_,              \* per thread: atomic_stack slots below top_, bottom first
    true_top_,           \* per thread: atomic_stack::true_top_
    mutex_wait_,         \* per thread: thread_mutex_info::mutex_wait_
    other_wait_info_,    \* per thread: thread_mutex_info::other_wait_info_
    locks, unlocks, waits, wait_sum_ns, wait_sumsq_ns,   \* mutex_stat per order
    pc,                  \* per thread: position inside the running call
    arg,                 \* per thread: the mutex of the running call
    discard_wait_time_,  \* per thread: lock_scoped_stat_enabled::discard_wait_time_
    fatal,               \* "none", or which LOG_ALWAYS_FATAL ended the process
    budget,              \* per thread: calls it may still issue
    wait_scope,          \* per thread: its live scoped_join_wait_check and
                         \* scoped_queue_wait_check objects, innermost last
    scoped_lock_,        \* per thread: its scoped_lock object, and where the
                         \* thread is in the constructor or destructor of it
    registry_,           \* thread_registry: tid -> the descriptor registered
    round_trip,          \* history: the last add_to_registry, the key set
                         \* before it, and whether its tid was removed next
    registry_ret,        \* what the last add_to_registry and the last
                         \* remove_from_registry returned
    removing,            \* an atomic_stack and the remove() running on it,
                         \* one load or store at a time
    thread_tid,          \* per starting and exiting thread: its tid
    thread_tminfo,       \* per starting and exiting thread: the descriptor its
                         \* thread_local shared_ptr owns
    agent_pc,            \* per such thread and for the snapshot taker: the
                         \* place in its code
    agent_obj,           \* the descriptor it is registering, has promoted
                         \* from a weak_ptr or is destroying
    use_count,           \* per descriptor: the owners of a shared_ptr to it
    destroyed,           \* the descriptors whose destructor has returned
    registry_mutex_,     \* thread_registry::mutex_: who holds it
    registry_map,        \* the snapshot taker's copy of registry_, less the
                         \* entries it has gone through
    dumps,               \* snapshots taken
    writeFd,             \* FdToString: the write end of the pipe: "none" before
                         \* createWriter, then "open", then "closed"
    prefix,              \* the reader task's prefix
    pipe,                \* the bytes written to the pipe and not yet read
    out,                 \* the reader task's out
    requiresPrefix,      \* the reader task's requiresPrefix
    reader,              \* the reader task: "none", "polling" or "returned"
    written,             \* history: every byte written to the pipe so far
    broke_early,         \* history: the reader left its loop on the deadline or
                         \* on an error of poll or read
    mByteCursor,         \* SPDIFEncoder::mByteCursor
    mPayloadBytesPending, \* SPDIFEncoder::mPayloadBytesPending
    mScanning,           \* SPDIFEncoder::mScanning
    bytesLeft,           \* SPDIFEncoder::write: bytesLeft of the running call
    burst,               \* history: what the last step did to mBurstBuffer
    \* history variables, read by no action
    os_misuse,           \* a std::mutex was released by a thread not owning it
    acquired, released,  \* per order: std::mutex acquisitions and releases so far
    ascending,           \* per thread: so far it only locked in strictly ascending
                         \* order, within StackDepth, and unlocked what it holds
    mark,                \* per thread: the held stack as it was before a lock call
    marking,             \* whether this behaviour records marks
    overflowed           \* per thread: it has pushed on a full held stack

vars == <<m_, pairs_, true_top_, mutex_wait_, other_wait_info_,
          locks, unlocks, waits, wait_sum_ns, wait_sumsq_ns,
          pc, arg, discard_wait_time_, fatal, budget,
          os_misuse, acquired, released, ascending, mark, marking, overflowed, wait_scope, scoped_lock_,
          registry_, round_trip, registry_ret, removing,
          thread_tid, thread_tminfo, agent_pc, agent_obj, use_count, destroyed,
          registry_mutex_, registry_map, dumps,
          writeFd, prefix, pipe, out, requiresPrefix, reader, written, broke_early,
          mByteCursor, mPayloadBytesPending, mScanning, bytesLeft, burst>>

registryVars == <<registry_, round_trip, registry_ret>>

\* The variables of the threads that start and exit and of the thread that
\* takes snapshots of the registry.
lifecycleVars == <<thread_tid, thread_tminfo, agent_pc, agent_obj, use_count, destroyed,
                   registry_mutex_, registry_map, dumps>>

\* The variables of FdToString.
fdVars == <<writeFd, prefix, pipe, out, requiresPrefix, reader, written, broke_early>>

\* The variables of SPDIFEncoder.
spdifVars == <<mByteCursor, mPayloadBytesPending, mScanning, bytesLeft, burst>>

\* The variables of the units a mutex call does not touch.
unitVars == <<registryVars, removing, lifecycleVars, fdVars, spdifVars>>

\* The variables of the threads and their mutexes.
mutexVars == <<m_, pairs_, true_top_, mutex_wait_, other_wait_info_,
               locks, unlocks, waits, wait_sum_ns, wait_sumsq_ns,
               pc, arg, discard_wait_time_, fatal, budget,
               os_misuse, acquired, released, ascending, mark, marking, overflowed,
               wait_scope, scoped_lock_>>

statVars == <<locks, unlocks, waits, wait_sum_ns, wait_sumsq_ns>>
stackVars == <<pairs_, true_top_>>

\* ------------------------------------------------------------ atomic_stack
invalid_ == [first |-> NullHandle, second |-> 0]

Pair(item, payload) == [first |-> item, second |-> payload]

size(pairs) == Len(pairs)

\* push that keeps growing the stack beyond its capacity.
push_grows(pairs, true_top, item, payload) ==
    [pairs |-> Append(pairs, Pair(item, payload)), true_top |-> true_top + 1]

\* push that does not count, in true_top_, an item pushed on a full stack.
push_full_uncounted(pairs, true_top, item, payload) ==
    IF Len(pairs) >= StackDepth
    THEN [pairs |-> [pairs EXCEPT ![StackDepth] = Pair(item, payload)],
          true_top |-> true_top]
    ELSE [pairs |-> Append(pairs, Pair(item, payload)),
          true_top |-> true_top + 1]

\* atomic_stack::push; the result is the new (pairs_, true_top_).
push(pairs, true_top, item, payload) ==
    IF Len(pairs) >= StackDepth
    THEN [pairs |-> [pairs EXCEPT ![StackDepth] = Pair(item, payload)],
          true_top |-> true_top + 1]
    ELSE [pairs |-> Append(pairs, Pair(item, payload)),
          true_top |-> true_top + 1]

\* Index of the topmost slot holding item, 0 when there is none.
find_from_top(pairs, item) ==
    LET hits == {i \in 1..Len(pairs) : pairs[i].first = item}
    IN IF hits = {} THEN 0 ELSE CHOOSE i \in hits : \A j \in hits : j <= i

\* A removal that drops the top slot whichever slot was found.
drop_top(pairs, i) == SubSeq(pairs, 1, Len(pairs) - 1)

\* pairs with slot i removed and the higher slots shifted down.
shift_down(pairs, i) ==
    [j \in 1..(Len(pairs) - 1) |-> IF j < i THEN pairs[j] ELSE pairs[j + 1]]

\* remove that reports success for a handle it finds but leaves its slot in place.
remove_leaves_slot(pairs, true_top, item) ==
    IF true_top = 0
    THEN [ok |-> FALSE, pairs |-> pairs, true_top |-> true_top]
    ELSE IF find_from_top(pairs, item) > 0 \/ true_top - 1 >= Len(pairs)
    THEN [ok |-> TRUE, pairs |-> pairs, true_top |-> true_top - 1]
    ELSE [ok |-> FALSE, pairs |-> pairs, true_top |-> Len(pairs)]

\* remove that accepts every handle it does not find.
remove_accepts_missing(pairs, true_top, item) ==
    IF true_top = 0
    THEN [ok |-> FALSE, pairs |-> pairs, true_top |-> true_top]
    ELSE LET i == find_from_top(pairs, item) IN
         IF i > 0
         THEN [ok |-> TRUE, pairs |-> shift_down(pairs, i), true_top |-> true_top - 1]
         ELSE [ok |-> TRUE, pairs |-> pairs, true_top |-> true_top - 1]

\* remove that forgets --true_top_ when it finds the handle.
remove_keeps_true_top(pairs, true_top, item) ==
    IF true_top = 0
    THEN [ok |-> FALSE, pairs |-> pairs, true_top |-> true_top]
    ELSE LET i == find_from_top(pairs, item) IN
         IF i > 0
         THEN [ok |-> TRUE, pairs |-> shift_down(pairs, i), true_top |-> true_top]
         ELSE IF true_top - 1 >= Len(pairs)
         THEN [ok |-> TRUE, pairs |-> pairs, true_top |-> true_top - 1]
         ELSE [ok |-> FALSE, pairs |-> pairs, true_top |-> Len(pairs)]

\* remove without the test for an empty stack: on true_top_ = 0 it reports success.
remove_from_empty(pairs, true_top, item) ==
    IF true_top = 0
    THEN [ok |-> TRUE, pairs |-> pairs, true_top |-> true_top]
    ELSE LET i == find_from_top(pairs, item) IN
         IF i > 0
         THEN [ok |-> TRUE, pairs |-> shift_down(pairs, i), true_top |-> true_top - 1]
         ELSE IF true_top - 1 >= Len(pairs)
         THEN [ok |-> TRUE, pairs |-> pairs, true_top |-> true_top - 1]
         ELSE [ok |-> FALSE, pairs |-> pairs, true_top |-> Len(pairs)]

\* remove that reports an invalid removal without recovering true_top_.
remove_no_recover(pairs, true_top, item) ==
    IF true_top = 0
    THEN [ok |-> FALSE, pairs |-> pairs, true_top |-> true_top]
    ELSE LET i == find_from_top(pairs, item) IN
         IF i > 0
         THEN [ok |-> TRUE, pairs |-> shift_down(pairs, i), true_top |-> true_top - 1]
         ELSE IF true_top - 1 >= Len(pairs)
         THEN [ok |-> TRUE, pairs |-> pairs, true_top |-> true_top - 1]
         ELSE [ok |-> FALSE, pairs |-> pairs, true_top |-> true_top - 1]

\* atomic_stack::remove; the result is (success, pairs_, true_top_).
remove(pairs, true_top, item) ==
    IF true_top = 0
    THEN [ok |-> FALSE, pairs |-> pairs, true_top |-> true_top]
    ELSE LET i == find_from_top(pairs, item) IN
         IF i > 0
         THEN [ok |-> TRUE, pairs |-> shift_down(pairs, i), true_top |-> true_top - 1]
         ELSE IF true_top - 1 >= Len(pairs)
         THEN [ok |-> TRUE, pairs |-> pairs, true_top |-> true_top - 1]
         ELSE [ok |-> FALSE, pairs |-> pairs, true_top |-> Len(pairs)]

\* atomic_stack::top(offset)
top(pairs, offset) ==
    LET t == Len(pairs) - offset
    IN IF t > 0 /\ t <= StackDepth THEN pairs[t] ELSE invalid_

\* atomic_stack::bottom(offset)
bottom(pairs, offset) ==
    IF offset < Len(pairs) THEN pairs[offset + 1] ELSE invalid_

\* -------------------------------------------------------- thread_mutex_info
RECURSIVE check_held_from(_, _, _, _)
check_held_from(pairs, i, mutex, order) ==
    IF i >= size(pairs) THEN invalid_
    ELSE LET p == top(pairs, i) IN
         IF p.second < order THEN invalid_
         ELSE IF p.second > order THEN p
         ELSE IF p.first = mutex THEN p
         ELSE check_held_from(pairs, i + 1, mutex, order)

\* check_held that reports only the mutex's own handle, never an inverted order.
RECURSIVE check_handle_only_from(_, _, _, _)
check_handle_only_from(pairs, i, mutex, order) ==
    IF i >= size(pairs) THEN invalid_
    ELSE LET p == top(pairs, i) IN
         IF p.second < order THEN invalid_
         ELSE IF p.first = mutex THEN p
         ELSE check_handle_only_from(pairs, i + 1, mutex, order)

check_handle_only(pairs, mutex, order) == check_handle_only_from(pairs, 0, mutex, order)

\* check_held that reports an entry of equal order whatever its handle.
RECURSIVE check_equal_order_from(_, _, _, _)
check_equal_order_from(pairs, i, mutex, order) ==
    IF i >= size(pairs) THEN invalid_
    ELSE LET p == top(pairs, i) IN
         IF p.second < order THEN invalid_
         ELSE p

check_equal_order(pairs, mutex, order) == check_equal_order_from(pairs, 0, mutex, order)

\* check_held that does not stop at an entry of lower order.
RECURSIVE check_whole_stack_from(_, _, _, _)
check_whole_stack_from(pairs, i, mutex, order) ==
    IF i >= size(pairs) THEN invalid_
    ELSE LET p == top(pairs, i) IN
         IF p.second > order THEN p
         ELSE IF p.second = order /\ p.first = mutex THEN p
         ELSE check_whole_stack_from(pairs, i + 1, mutex, order)

check_whole_stack(pairs, mutex, order) == check_whole_stack_from(pairs, 0, mutex, order)

\* thread_mutex_info::check_held
check_held(pairs, mutex, order) == check_held_from(pairs, 0, mutex, order)

NoOtherWait == [tid |-> kInvalidTid, reason |-> "none", order |-> -1]


\* ------------------------------------------------------------- AudioMutexAttributes
abort_on_order_check_ == TRUE
abort_on_recursion_check_ == TRUE
abort_on_invalid_unlock_ == TRUE

\* ------------------------------------------------------------------- state
NoMark == [set |-> FALSE]

\* No scoped_lock object: step is the place in its constructor and destructor,
\* m1 and m2 its mutexes, cur the mutex std::lock holds or blocks on, calls the
\* lock, try_lock and unlock calls it has made.
NoScopedLock ==
    [step |-> "none", m1 |-> NullHandle, m2 |-> NullHandle, cur |-> NullHandle, calls |-> 0]

\* The threads that start and exit: x is thread 1, alive and registered from
\* the start; y starts later, with a tid no live thread has.  The snapshot
\* taker runs to_string or deadlock_detection.  Thread 2 stays alive.
Workers == {"x", "y"}
Dumper == "dump"
Agents == Workers \cup {Dumper}
NoDescriptor == [tid_ |-> kInvalidTid, id |-> 0]

\* No access to mBurstBuffer.  stores and loads are the indexes of the uint16_t
\* elements a step of write() has stored to and loaded from, dropped whether
\* it has refused an append, high the highest value mByteCursor has had in it.
NoBurst == [stores |-> {}, loads |-> {}, dropped |-> FALSE, high |-> 0]

\* No remove() running step by step.
NoRemove == [pc |-> "none"]

\* No add_to_registry recorded.
NoRoundTrip == [stage |-> "none", keys |-> {}, tid_ |-> kInvalidTid]

InitFields ==
    /\ m_ = [m \in Mutexes |-> kInvalidTid]
    /\ pairs_ = [t \in Threads |-> <<>>]
    /\ true_top_ = [t \in Threads |-> 0]
    /\ mutex_wait_ = [t \in Threads |-> NullHandle]
    /\ other_wait_info_ = [t \in Threads |-> NoOtherWait]
    /\ locks = [o \in Orders |-> 0]
    /\ unlocks = [o \in Orders |-> 0]
    /\ waits = [o \in Orders |-> 0]
    /\ wait_sum_ns = [o \in Orders |-> 0]
    /\ wait_sumsq_ns = [o \in Orders |-> 0]
    /\ pc = [t \in Threads |-> "idle"]
    /\ arg = [t \in Threads |-> NullHandle]
    /\ discard_wait_time_ = [t \in Threads |-> FALSE]
    /\ fatal = "none"
    /\ os_misuse = FALSE
    /\ acquired = [o \in Orders |-> 0]
    /\ released = [o \in Orders |-> 0]
    /\ ascending = [t \in Threads |-> TRUE]
    /\ mark = [t \in Threads |-> NoMark]
    /\ overflowed = [t \in Threads |-> FALSE]
    /\ wait_scope = [t \in Threads |-> <<>>]
    /\ scoped_lock_ = [t \in Threads |-> NoScopedLock]
    /\ registry_ = [t \in Threads |-> [tid_ |-> t, id |-> 1]]
    /\ round_trip = NoRoundTrip
    /\ registry_ret = [add_to_registry |-> "none", remove_from_registry |-> "none"]
    /\ removing = NoRemove
    /\ thread_tid = [w \in Workers |-> IF w = "x" THEN 1 ELSE kInvalidTid]
    /\ thread_tminfo = [w \in Workers |-> IF w = "x" THEN [tid_ |-> 1, id |-> 1] ELSE NoDescriptor]
    /\ agent_pc = [a \in Agents |-> IF a = "x" THEN "live"
                                     ELSE IF a = "y" THEN "unborn" ELSE "idle"]
    /\ agent_obj = [a \in Agents |-> NoDescriptor]
    /\ use_count = [d \in [tid_ : Threads \cup {3}, id : {1, 2}] |->
                       IF d = [tid_ |-> 1, id |-> 1] THEN {"x"}
                       ELSE IF d = [tid_ |-> 2, id |-> 1] THEN {"thread2"} ELSE {}]
    /\ destroyed = {}
    /\ registry_mutex_ = "none"
    /\ registry_map = <<>>
    /\ dumps = 0
    /\ writeFd = "none"
    /\ prefix = <<>>
    /\ pipe = <<>>
    /\ out = <<>>
    /\ requiresPrefix = TRUE
    /\ reader = "none"
    /\ written = <<>>
    /\ broke_early = FALSE
    /\ mByteCursor = 0
    /\ mPayloadBytesPending = 0
    /\ mScanning = TRUE
    /\ bytesLeft = 0
    /\ burst = NoBurst

InitState == InitFields /\ budget = CallBudget

Init == InitState /\ marking = FALSE

\* The same program under each of the mixes of calls.
InitBudgets == InitFields /\ budget \in Budgets /\ marking = FALSE

\* The same program, with the held stack recorded at lock calls.
InitMarking == InitState /\ marking = TRUE

Running == fatal = "none"

CanCall(t) == Running /\ pc[t] = "idle" /\ budget[t] > 0

\* The mutexes whose std::mutex thread t owns.
Owned(t) == {m \in Mutexes : m_[m] = t}

\* The handles in the slots of a held stack.
Handles(pairs) == {pairs[i].first : i \in DOMAIN pairs}

\* --------------------------------------------------------- history updates
\* A lock call of m keeps thread t ascending when m's order is above every order
\* t holds and t stays within StackDepth.
AscendingLock(t, m) ==
    /\ ascending[t]
    /\ \A h \in Owned(t) : MutexOrderOf[h] < MutexOrderOf[m]
    /\ Cardinality(Owned(t)) < StackDepth

\* At a lock call the held stack may be recorded, to compare it with the stack
\* after the calls that follow have released everything they acquired.  One
\* record is kept at a time, which call is recorded is free, and a call is
\* recorded only if the thread has a call left for the unlock.
MarkHere(t) ==
    [set |-> TRUE, pairs |-> pairs_[t], true_top |-> true_top_[t], held |-> Owned(t),
     budget |-> budget[t]]

MarkAtLock(t) ==
    IF marking /\ ~mark[t].set /\ budget[t] >= 2 THEN {mark[t], MarkHere(t)} ELSE {mark[t]}

\* An unlock of m keeps the mark when m was acquired after the mark was set.
MarkAtUnlock(t, m) ==
    IF mark[t].set /\ m \in Owned(t) /\ m \notin mark[t].held THEN mark[t] ELSE NoMark

Acquire(m) == acquired' = [acquired EXCEPT ![MutexOrderOf[m]] = @ + 1]

\* --------------------------------------------------------------- mutex_impl
\* lock_scoped_stat_enabled::pre_lock: the LOG_ALWAYS_FATAL it raises, or "none".
pre_lock(pairs, m) ==
    IF ~abort_on_order_check_ /\ ~abort_on_recursion_check_ THEN "none"
    ELSE LET p == check_held(pairs, m, MutexOrderOf[m]) IN
         IF p.first = NullHandle THEN "none"
         ELSE IF abort_on_order_check_ /\ p.second > MutexOrderOf[m] THEN "order"
         ELSE IF abort_on_recursion_check_ /\ p.second = MutexOrderOf[m] THEN "recursion"
         ELSE "none"

\* What m_.unlock() leaves in the std::mutex when thread t calls it on mutex m.
\* By a non-owner it is undefined: a default mutex is released whoever owns
\* it, a priority-inheritance mutex refuses and stays as it is.
unlock_outcomes(t, m) ==
    IF m_[m] = t THEN {kInvalidTid} ELSE {kInvalidTid, m_[m]}

\* The std::mutex of thread t's running call is released (m_.unlock(), or the
\* release inside cv_.wait).
os_release(t) ==
    /\ \E o \in unlock_outcomes(t, arg[t]) :
         /\ m_' = [m_ EXCEPT ![arg[t]] = o]
         /\ released' = IF m_[arg[t]] # kInvalidTid /\ o = kInvalidTid
                        THEN [released EXCEPT ![MutexOrderOf[arg[t]]] = @ + 1]
                        ELSE released
    /\ os_misuse' = (os_misuse \/ m_[arg[t]] # t)

\* mutex_impl::lock: pre_lock, then m_.try_lock(); on failure the contended path.
lock(t, m) ==
    /\ CanCall(t)
    /\ budget' = [budget EXCEPT ![t] = @ - 1]
    /\ IF pre_lock(pairs_[t], m) # "none"
       THEN /\ fatal' = pre_lock(pairs_[t], m)
            /\ ascending' = [ascending EXCEPT ![t] = AscendingLock(t, m)]
            /\ UNCHANGED <<m_, pc, arg, acquired, mark>>
       ELSE /\ arg' = [arg EXCEPT ![t] = m]
            /\ ascending' = [ascending EXCEPT ![t] = AscendingLock(t, m)]
            /\ \E k \in MarkAtLock(t) : mark' = [mark EXCEPT ![t] = k]
            /\ UNCHANGED fatal
            /\ IF m_[m] = kInvalidTid
               THEN /\ m_' = [m_ EXCEPT ![m] = t]
                    /\ Acquire(m)
                    /\ pc' = [pc EXCEPT ![t] = "post_lock"]
               ELSE /\ pc' = [pc EXCEPT ![t] = "lock_ls"]
                    /\ UNCHANGED <<m_, acquired>>
    /\ UNCHANGED <<stackVars, mutex_wait_, other_wait_info_, statVars,
                   discard_wait_time_, os_misuse, released, marking, overflowed, wait_scope, scoped_lock_, unitVars>>

\* try_lock taking the timed path for every timeout_ns but 0.
try_lock_timed_unless_zero(t, m, timeout_ns) ==
    /\ CanCall(t)
    /\ budget' = [budget EXCEPT ![t] = @ - 1]
    /\ IF pre_lock(pairs_[t], m) # "none"
       THEN /\ fatal' = pre_lock(pairs_[t], m)
            /\ ascending' = [ascending EXCEPT ![t] = FALSE]
            /\ UNCHANGED <<m_, pc, arg, acquired, mark>>
       ELSE /\ UNCHANGED fatal
            /\ ascending' = [ascending EXCEPT ![t] = FALSE]
            /\ \E k \in MarkAtLock(t) : mark' = [mark EXCEPT ![t] = k]
            /\ IF timeout_ns # 0
               THEN /\ arg' = [arg EXCEPT ![t] = m]
                    /\ pc' = [pc EXCEPT ![t] = "try_lock_ls"]
                    /\ UNCHANGED <<m_, acquired>>
               ELSE IF m_[m] = kInvalidTid
               THEN /\ arg' = [arg EXCEPT ![t] = m]
                    /\ m_' = [m_ EXCEPT ![m] = t]
                    /\ Acquire(m)
                    /\ pc' = [pc EXCEPT ![t] = "post_lock"]
               ELSE UNCHANGED <<m_, pc, arg, acquired>>
    /\ UNCHANGED <<stackVars, mutex_wait_, other_wait_info_, statVars,
                   discard_wait_time_, os_misuse, released, marking, overflowed, wait_scope, scoped_lock_, unitVars>>

\* mutex_impl::try_lock(timeout_ns): pre_lock, then for timeout_ns <= 0 the single
\* m_.try_lock(), else entry to the timed path.
try_lock(t, m, timeout_ns) ==
    /\ CanCall(t)
    /\ budget' = [budget EXCEPT ![t] = @ - 1]
    /\ IF pre_lock(pairs_[t], m) # "none"
       THEN /\ fatal' = pre_lock(pairs_[t], m)
            /\ ascending' = [ascending EXCEPT ![t] = FALSE]
            /\ UNCHANGED <<m_, pc, arg, acquired, mark>>
       ELSE /\ UNCHANGED fatal
            /\ ascending' = [ascending EXCEPT ![t] = FALSE]
            /\ \E k \in MarkAtLock(t) : mark' = [mark EXCEPT ![t] = k]
            /\ IF timeout_ns > 0
               THEN /\ arg' = [arg EXCEPT ![t] = m]
                    /\ pc' = [pc EXCEPT ![t] = "try_lock_ls"]
                    /\ UNCHANGED <<m_, acquired>>
               ELSE IF m_[m] = kInvalidTid
               THEN /\ arg' = [arg EXCEPT ![t] = m]
                    /\ m_' = [m_ EXCEPT ![m] = t]
                    /\ Acquire(m)
                    /\ pc' = [pc EXCEPT ![t] = "post_lock"]
               ELSE UNCHANGED <<m_, pc, arg, acquired>>
    /\ UNCHANGED <<stackVars, mutex_wait_, other_wait_info_, statVars,
                   discard_wait_time_, os_misuse, released, marking, overflowed, wait_scope, scoped_lock_, unitVars>>

\* lock_scoped_stat_enabled constructor, first statement: ++mutex_.stat_.waits.
ls_ctor_waits(t) ==
    /\ Running /\ pc[t] \in {"lock_ls", "try_lock_ls"}
    /\ waits' = [waits EXCEPT ![MutexOrderOf[arg[t]]] = @ + 1]
    /\ pc' = [pc EXCEPT ![t] = IF pc[t] = "lock_ls" THEN "lock_ls2" ELSE "try_lock_ls2"]
    /\ UNCHANGED <<m_, stackVars, mutex_wait_, other_wait_info_, locks, unlocks,
                   wait_sum_ns, wait_sumsq_ns, arg, discard_wait_time_, fatal,
                   budget, os_misuse, acquired, released, ascending, mark, marking, overflowed, wait_scope, scoped_lock_, unitVars>>

\* The constructor of lock_scoped_stat without its reset_waiter(&mutex_).
ls_ctor_no_waiter(t) ==
    /\ Running /\ pc[t] \in {"lock_ls2", "try_lock_ls2"}
    /\ pc' = [pc EXCEPT ![t] = IF pc[t] = "lock_ls2" THEN "m_lock" ELSE "timedlock"]
    /\ UNCHANGED <<m_, stackVars, mutex_wait_, other_wait_info_, statVars, arg,
                   discard_wait_time_, fatal, budget, os_misuse, acquired, released,
                   ascending, mark, marking, overflowed, wait_scope, scoped_lock_, unitVars>>

\* lock_scoped_stat_enabled constructor, second statement: reset_waiter(&mutex_).
ls_ctor_reset_waiter(t) ==
    /\ Running /\ pc[t] \in {"lock_ls2", "try_lock_ls2"}
    /\ mutex_wait_' = [mutex_wait_ EXCEPT ![t] = arg[t]]
    /\ pc' = [pc EXCEPT ![t] = IF pc[t] = "lock_ls2" THEN "m_lock" ELSE "timedlock"]
    /\ UNCHANGED <<m_, stackVars, other_wait_info_, statVars, arg,
                   discard_wait_time_, fatal, budget, os_misuse, acquired, released,
                   ascending, mark, marking, overflowed, wait_scope, scoped_lock_, unitVars>>

\* mutex_impl::lock: the blocking m_.lock() returns.
m_lock(t) ==
    /\ Running /\ pc[t] = "m_lock"
    /\ m_[arg[t]] = kInvalidTid
    /\ m_' = [m_ EXCEPT ![arg[t]] = t]
    /\ Acquire(arg[t])
    /\ pc' = [pc EXCEPT ![t] = "ls_dtor"]
    /\ UNCHANGED <<stackVars, mutex_wait_, other_wait_info_, statVars, arg,
                   discard_wait_time_, fatal, budget, os_misuse, released,
                   ascending, mark, marking, overflowed, wait_scope, scoped_lock_, unitVars>>

\* m_.lock() on a std::mutex the caller owns is undefined: it blocks for ever
\* (no step), or the OS reports the deadlock and the process ends.
m_lock_self(t) ==
    /\ Running /\ pc[t] = "m_lock"
    /\ m_[arg[t]] = t
    /\ fatal' = "os"
    /\ UNCHANGED <<m_, stackVars, mutex_wait_, other_wait_info_, statVars, pc, arg,
                   discard_wait_time_, budget, os_misuse, acquired, released,
                   ascending, mark, marking, overflowed, wait_scope, scoped_lock_, unitVars>>

\* mutex_impl::try_lock, timeout_ns > 0: pthread_mutex_timedlock returns 0.
timedlock_acquire(t) ==
    /\ Running /\ pc[t] = "timedlock"
    /\ m_[arg[t]] = kInvalidTid
    /\ m_' = [m_ EXCEPT ![arg[t]] = t]
    /\ Acquire(arg[t])
    /\ pc' = [pc EXCEPT ![t] = "ls_dtor"]
    /\ UNCHANGED <<stackVars, mutex_wait_, other_wait_info_, statVars, arg,
                   discard_wait_time_, fatal, budget, os_misuse, released,
                   ascending, mark, marking, overflowed, wait_scope, scoped_lock_, unitVars>>

\* mutex_impl::try_lock, timeout_ns > 0: pthread_mutex_timedlock fails, ignoreWaitTime().
timedlock_expire(t) ==
    /\ Running /\ pc[t] = "timedlock"
    /\ m_[arg[t]] # kInvalidTid
    /\ discard_wait_time_' = [discard_wait_time_ EXCEPT ![t] = TRUE]
    /\ pc' = [pc EXCEPT ![t] = "ls_dtor"]
    /\ UNCHANGED <<m_, stackVars, mutex_wait_, other_wait_info_, statVars, arg,
                   fatal, budget, os_misuse, acquired, released, ascending, mark, marking, overflowed, wait_scope, scoped_lock_, unitVars>>

\* The destructor of lock_scoped_stat without its reset_waiter().
ls_dtor_keeps_waiter(t) ==
    /\ Running /\ pc[t] = "ls_dtor"
    /\ IF discard_wait_time_[t]
       THEN UNCHANGED <<wait_sum_ns, wait_sumsq_ns>>
       ELSE \E dt \in WaitTimes :
              /\ wait_sum_ns' = [wait_sum_ns EXCEPT ![MutexOrderOf[arg[t]]] = @ + dt]
              /\ wait_sumsq_ns' = [wait_sumsq_ns EXCEPT ![MutexOrderOf[arg[t]]] = @ + dt * dt]
    /\ pc' = [pc EXCEPT ![t] = IF discard_wait_time_[t] THEN "idle" ELSE "post_lock"]
    /\ arg' = [arg EXCEPT ![t] = IF discard_wait_time_[t] THEN NullHandle ELSE @]
    /\ discard_wait_time_' = [discard_wait_time_ EXCEPT ![t] = FALSE]
    /\ UNCHANGED <<m_, stackVars, mutex_wait_, other_wait_info_, locks, unlocks, waits,
                   fatal, budget, os_misuse, acquired, released, ascending, mark, marking, overflowed, wait_scope, scoped_lock_, unitVars>>

\* The destructor of lock_scoped_stat adding the wait time whether discarded or not.
ls_dtor_adds_time(t) ==
    /\ Running /\ pc[t] = "ls_dtor"
    /\ \E dt \in WaitTimes :
              /\ wait_sum_ns' = [wait_sum_ns EXCEPT ![MutexOrderOf[arg[t]]] = @ + dt]
              /\ wait_sumsq_ns' = [wait_sumsq_ns EXCEPT ![MutexOrderOf[arg[t]]] = @ + dt * dt]
    /\ mutex_wait_' = [mutex_wait_ EXCEPT ![t] = NullHandle]
    /\ pc' = [pc EXCEPT ![t] = IF discard_wait_time_[t] THEN "idle" ELSE "post_lock"]
    /\ arg' = [arg EXCEPT ![t] = IF discard_wait_time_[t] THEN NullHandle ELSE @]
    /\ discard_wait_time_' = [discard_wait_time_ EXCEPT ![t] = FALSE]
    /\ UNCHANGED <<m_, stackVars, other_wait_info_, locks, unlocks, waits,
                   fatal, budget, os_misuse, acquired, released, ascending, mark, marking, overflowed, wait_scope, scoped_lock_, unitVars>>

\* The destructor of lock_scoped_stat clearing the waiting handle of every thread.
ls_dtor_clears_all_waiters(t) ==
    /\ Running /\ pc[t] = "ls_dtor"
    /\ IF discard_wait_time_[t]
       THEN UNCHANGED <<wait_sum_ns, wait_sumsq_ns>>
       ELSE \E dt \in WaitTimes :
              /\ wait_sum_ns' = [wait_sum_ns EXCEPT ![MutexOrderOf[arg[t]]] = @ + dt]
              /\ wait_sumsq_ns' = [wait_sumsq_ns EXCEPT ![MutexOrderOf[arg[t]]] = @ + dt * dt]
    /\ mutex_wait_' = [u \in Threads |-> NullHandle]
    /\ pc' = [pc EXCEPT ![t] = IF discard_wait_time_[t] THEN "idle" ELSE "post_lock"]
    /\ arg' = [arg EXCEPT ![t] = IF discard_wait_time_[t] THEN NullHandle ELSE @]
    /\ discard_wait_time_' = [discard_wait_time_ EXCEPT ![t] = FALSE]
    /\ UNCHANGED <<m_, stackVars, other_wait_info_, locks, unlocks, waits,
                   fatal, budget, os_misuse, acquired, released, ascending, mark, marking, overflowed, wait_scope, scoped_lock_, unitVars>>

\* lock_scoped_stat_enabled destructor: add_wait_time unless discarded, reset_waiter().
ls_dtor(t) ==
    /\ Running /\ pc[t] = "ls_dtor"
    /\ IF discard_wait_time_[t]
       THEN UNCHANGED <<wait_sum_ns, wait_sumsq_ns>>
       ELSE \E dt \in WaitTimes :
              /\ wait_sum_ns' = [wait_sum_ns EXCEPT ![MutexOrderOf[arg[t]]] = @ + dt]
              /\ wait_sumsq_ns' = [wait_sumsq_ns EXCEPT ![MutexOrderOf[arg[t]]] = @ + dt * dt]
    /\ mutex_wait_' = [mutex_wait_ EXCEPT ![t] = NullHandle]
    /\ pc' = [pc EXCEPT ![t] = IF discard_wait_time_[t] THEN "idle" ELSE "post_lock"]
    /\ arg' = [arg EXCEPT ![t] = IF discard_wait_time_[t] THEN NullHandle ELSE @]
    /\ discard_wait_time_' = [discard_wait_time_ EXCEPT ![t] = FALSE]
    /\ UNCHANGED <<m_, stackVars, other_wait_info_, locks, unlocks, waits,
                   fatal, budget, os_misuse, acquired, released, ascending, mark, marking, overflowed, wait_scope, scoped_lock_, unitVars>>

\* lock_scoped_stat_enabled::post_lock: ++locks, push_held.
post_lock(t) ==
    /\ Running /\ pc[t] = "post_lock"
    /\ locks' = [locks EXCEPT ![MutexOrderOf[arg[t]]] = @ + 1]
    /\ LET r == push(pairs_[t], true_top_[t], arg[t], MutexOrderOf[arg[t]]) IN
         /\ pairs_' = [pairs_ EXCEPT ![t] = r.pairs]
         /\ true_top_' = [true_top_ EXCEPT ![t] = r.true_top]
    /\ pc' = [pc EXCEPT ![t] = "idle"]
    /\ arg' = [arg EXCEPT ![t] = NullHandle]
    /\ UNCHANGED <<m_, mutex_wait_, other_wait_info_, unlocks, waits, wait_sum_ns,
                   wait_sumsq_ns, discard_wait_time_, fatal, budget, os_misuse,
                   acquired, released, ascending, mark, marking, wait_scope, scoped_lock_, unitVars>>
    /\ overflowed' = [overflowed EXCEPT ![t] = @ \/ Len(pairs_[t]) >= StackDepth]

\* mutex_impl::unlock up to and including pre_unlock: ++unlocks, remove_held.
unlock(t, m) ==
    /\ CanCall(t)
    /\ budget' = [budget EXCEPT ![t] = @ - 1]
    /\ unlocks' = [unlocks EXCEPT ![MutexOrderOf[m]] = @ + 1]
    /\ LET r == remove(pairs_[t], true_top_[t], m) IN
         /\ pairs_' = [pairs_ EXCEPT ![t] = r.pairs]
         /\ true_top_' = [true_top_ EXCEPT ![t] = r.true_top]
         /\ IF abort_on_invalid_unlock_ /\ ~r.ok
            THEN /\ fatal' = "invalid_unlock"
                 /\ ascending' = [ascending EXCEPT ![t] = FALSE]
                 /\ UNCHANGED <<pc, arg, mark>>
            ELSE /\ pc' = [pc EXCEPT ![t] = "m_unlock"]
                 /\ arg' = [arg EXCEPT ![t] = m]
                 /\ ascending' = [ascending EXCEPT ![t] = @ /\ m_[m] = t]
                 /\ mark' = [mark EXCEPT ![t] = MarkAtUnlock(t, m)]
                 /\ UNCHANGED fatal
    /\ UNCHANGED <<m_, mutex_wait_, other_wait_info_, locks, waits, wait_sum_ns,
                   wait_sumsq_ns, discard_wait_time_, os_misuse, acquired, released,
                   marking, overflowed, wait_scope, scoped_lock_, unitVars>>

\* mutex_impl::unlock: m_.unlock().
m_unlock(t) ==
    /\ Running /\ pc[t] = "m_unlock"
    /\ os_release(t)
    /\ pc' = [pc EXCEPT ![t] = "idle"]
    /\ arg' = [arg EXCEPT ![t] = NullHandle]
    /\ UNCHANGED <<stackVars, mutex_wait_, other_wait_info_, statVars,
                   discard_wait_time_, fatal, budget, acquired, ascending, mark, marking, overflowed, wait_scope, scoped_lock_, unitVars>>

\* The notifier_tid arguments of thread t's waits: none given, or another thread.
Notifiers(t) == {kInvalidTid} \cup (Threads \ {t})

\* condition_variable::wait on a unique_lock owning m: cv_wait_scoped_stat_enabled
\* constructor (++unlocks, remove_held_for_cv).
cv_wait(t, m, notifier_tid) ==
    /\ CanCall(t)
    /\ m_[m] = t
    /\ budget' = [budget EXCEPT ![t] = @ - 1]
    /\ unlocks' = [unlocks EXCEPT ![MutexOrderOf[m]] = @ + 1]
    /\ other_wait_info_' = [other_wait_info_ EXCEPT ![t] =
            [tid |-> notifier_tid, reason |-> "cv", order |-> MutexOrderOf[m]]]
    /\ LET r == remove(pairs_[t], true_top_[t], m) IN
         /\ pairs_' = [pairs_ EXCEPT ![t] = r.pairs]
         /\ true_top_' = [true_top_ EXCEPT ![t] = r.true_top]
         /\ IF abort_on_invalid_unlock_ /\ ~r.ok
            THEN /\ fatal' = "invalid_unlock"
                 /\ ascending' = [ascending EXCEPT ![t] = FALSE]
                 /\ UNCHANGED <<pc, arg, mark>>
            ELSE /\ pc' = [pc EXCEPT ![t] = "cv_release"]
                 /\ arg' = [arg EXCEPT ![t] = m]
                 /\ ascending' = [ascending EXCEPT ![t] = FALSE]
                 /\ mark' = [mark EXCEPT ![t] = NoMark]
                 /\ UNCHANGED fatal
    /\ UNCHANGED <<m_, mutex_wait_, locks, waits, wait_sum_ns, wait_sumsq_ns,
                   discard_wait_time_, os_misuse, acquired, released, marking, overflowed, wait_scope, scoped_lock_, unitVars>>

\* cv_.wait releases the std::mutex and sleeps.
cv_release(t) ==
    /\ Running /\ pc[t] = "cv_release"
    /\ os_release(t)
    /\ pc' = [pc EXCEPT ![t] = "cv_sleep"]
    /\ UNCHANGED <<stackVars, mutex_wait_, other_wait_info_, statVars, arg,
                   discard_wait_time_, fatal, budget, acquired, ascending, mark, marking, overflowed, wait_scope, scoped_lock_, unitVars>>

\* The wait variants with a predicate: stop_waiting() is true on entry and
\* cv_.wait returns without releasing the std::mutex.
cv_stop_waiting(t) ==
    /\ Running /\ pc[t] = "cv_release"
    /\ pc' = [pc EXCEPT ![t] = "cv_dtor"]
    /\ UNCHANGED <<m_, stackVars, mutex_wait_, other_wait_info_, statVars, arg,
                   discard_wait_time_, fatal, budget, os_misuse, acquired, released,
                   ascending, mark, marking, overflowed, wait_scope, scoped_lock_, unitVars>>

\* cv_.wait wakes (notified, timed out or spuriously) and re-acquires the std::mutex.
cv_wake(t) ==
    /\ Running /\ pc[t] = "cv_sleep"
    /\ m_[arg[t]] = kInvalidTid
    /\ m_' = [m_ EXCEPT ![arg[t]] = t]
    /\ Acquire(arg[t])
    /\ pc' = [pc EXCEPT ![t] = "cv_dtor"]
    /\ UNCHANGED <<stackVars, mutex_wait_, other_wait_info_, statVars, arg,
                   discard_wait_time_, fatal, budget, os_misuse, released,
                   ascending, mark, marking, overflowed, wait_scope, scoped_lock_, unitVars>>

\* The destructor of the condition wait without the reset of the auxiliary tid.
cv_dtor_keeps_tid(t) ==
    /\ Running /\ pc[t] = "cv_dtor"
    /\ locks' = [locks EXCEPT ![MutexOrderOf[arg[t]]] = @ + 1]
    /\ LET r == push(pairs_[t], true_top_[t], arg[t], MutexOrderOf[arg[t]]) IN
         /\ pairs_' = [pairs_ EXCEPT ![t] = r.pairs]
         /\ true_top_' = [true_top_ EXCEPT ![t] = r.true_top]
    /\ pc' = [pc EXCEPT ![t] = "idle"]
    /\ arg' = [arg EXCEPT ![t] = NullHandle]
    /\ UNCHANGED <<m_, mutex_wait_, other_wait_info_, unlocks, waits, wait_sum_ns,
                   wait_sumsq_ns, discard_wait_time_, fatal, budget, os_misuse,
                   acquired, released, ascending, mark, marking, wait_scope, scoped_lock_, unitVars>>
    /\ overflowed' = [overflowed EXCEPT ![t] = @ \/ Len(pairs_[t]) >= StackDepth]

\* The destructor of the condition wait without its ++locks.
cv_dtor_uncounted(t) ==
    /\ Running /\ pc[t] = "cv_dtor"
    /\ LET r == push(pairs_[t], true_top_[t], arg[t], MutexOrderOf[arg[t]]) IN
         /\ pairs_' = [pairs_ EXCEPT ![t] = r.pairs]
         /\ true_top_' = [true_top_ EXCEPT ![t] = r.true_top]
    /\ other_wait_info_' = [other_wait_info_ EXCEPT ![t].tid = kInvalidTid]
    /\ pc' = [pc EXCEPT ![t] = "idle"]
    /\ arg' = [arg EXCEPT ![t] = NullHandle]
    /\ UNCHANGED <<m_, mutex_wait_, locks, unlocks, waits, wait_sum_ns, wait_sumsq_ns,
                   discard_wait_time_, fatal, budget, os_misuse, acquired, released,
                   ascending, mark, marking, wait_scope, scoped_lock_, unitVars>>
    /\ overflowed' = [overflowed EXCEPT ![t] = @ \/ Len(pairs_[t]) >= StackDepth]

\* cv_wait_scoped_stat_enabled destructor: ++locks, push_held_for_cv.
cv_dtor(t) ==
    /\ Running /\ pc[t] = "cv_dtor"
    /\ locks' = [locks EXCEPT ![MutexOrderOf[arg[t]]] = @ + 1]
    /\ LET r == push(pairs_[t], true_top_[t], arg[t], MutexOrderOf[arg[t]]) IN
         /\ pairs_' = [pairs_ EXCEPT ![t] = r.pairs]
         /\ true_top_' = [true_top_ EXCEPT ![t] = r.true_top]
    /\ other_wait_info_' = [other_wait_info_ EXCEPT ![t].tid = kInvalidTid]
    /\ pc' = [pc EXCEPT ![t] = "idle"]
    /\ arg' = [arg EXCEPT ![t] = NullHandle]
    /\ UNCHANGED <<m_, mutex_wait_, unlocks, waits, wait_sum_ns, wait_sumsq_ns,
                   discard_wait_time_, fatal, budget, os_misuse, acquired, released,
                   ascending, mark, marking, wait_scope, scoped_lock_, unitVars>>
    /\ overflowed' = [overflowed EXCEPT ![t] = @ \/ Len(pairs_[t]) >= StackDepth]

\* The tids a wait scope may name: any thread, the caller included, and the
\* tid of a thread that never used a mutex and so is not in the registry.
WaitTids == Threads \cup {3}

\* A wait scope destructor that leaves the auxiliary tid in place.
scoped_wait_check_dtor_keeps_tid(t) ==
    /\ Running /\ pc[t] = "idle"
    /\ wait_scope[t] # <<>>
    /\ wait_scope' = [wait_scope EXCEPT ![t] = SubSeq(@, 1, Len(@) - 1)]
    /\ UNCHANGED <<m_, stackVars, mutex_wait_, other_wait_info_, statVars, pc, arg,
                   discard_wait_time_, fatal, budget, os_misuse, acquired, released,
                   ascending, mark, marking, overflowed, scoped_lock_, unitVars>>

\* scoped_join_wait_check constructor: add_wait_join(tid).
scoped_join_wait_check(t, tid) ==
    /\ CanCall(t)
    /\ budget' = [budget EXCEPT ![t] = @ - 1]
    /\ other_wait_info_' = [other_wait_info_ EXCEPT ![t].reason = "join", ![t].tid = tid]
    /\ wait_scope' = [wait_scope EXCEPT ![t] = Append(@, [reason |-> "join", tid |-> tid])]
    /\ UNCHANGED <<m_, stackVars, mutex_wait_, statVars, pc, arg,
                   discard_wait_time_, fatal, os_misuse, acquired, released,
                   ascending, mark, marking, overflowed, scoped_lock_, unitVars>>

\* scoped_queue_wait_check constructor: add_wait_queue(tid).
scoped_queue_wait_check(t, tid) ==
    /\ CanCall(t)
    /\ budget' = [budget EXCEPT ![t] = @ - 1]
    /\ other_wait_info_' = [other_wait_info_ EXCEPT ![t].reason = "queue", ![t].tid = tid]
    /\ wait_scope' = [wait_scope EXCEPT ![t] = Append(@, [reason |-> "queue", tid |-> tid])]
    /\ UNCHANGED <<m_, stackVars, mutex_wait_, statVars, pc, arg,
                   discard_wait_time_, fatal, os_misuse, acquired, released,
                   ascending, mark, marking, overflowed, scoped_lock_, unitVars>>

\* ~scoped_join_wait_check and ~scoped_queue_wait_check of the innermost live
\* scope: remove_wait_join() or remove_wait_queue(), the same assignment.
scoped_wait_check_dtor(t) ==
    /\ Running /\ pc[t] = "idle"
    /\ wait_scope[t] # <<>>
    /\ other_wait_info_' = [other_wait_info_ EXCEPT ![t].tid = kInvalidTid]
    /\ wait_scope' = [wait_scope EXCEPT ![t] = SubSeq(@, 1, Len(@) - 1)]
    /\ UNCHANGED <<m_, stackVars, mutex_wait_, statVars, pc, arg,
                   discard_wait_time_, fatal, budget, os_misuse, acquired, released,
                   ascending, mark, marking, overflowed, scoped_lock_, unitVars>>

Next ==
    \/ \E t \in Threads, m \in Mutexes : lock(t, m)
    \/ \E t \in Threads, m \in Mutexes, timeout_ns \in Timeouts : try_lock(t, m, timeout_ns)
    \/ \E t \in Threads : ls_ctor_waits(t)
    \/ \E t \in Threads : ls_ctor_reset_waiter(t)
    \/ \E t \in Threads : m_lock(t)
    \/ \E t \in Threads : m_lock_self(t)
    \/ \E t \in Threads : timedlock_acquire(t)
    \/ \E t \in Threads : timedlock_expire(t)
    \/ \E t \in Threads : ls_dtor(t)
    \/ \E t \in Threads : post_lock(t)
    \/ \E t \in Threads, m \in Mutexes : unlock(t, m)
    \/ \E t \in Threads : m_unlock(t)
    \/ \E t \in Threads, m \in Mutexes : \E n \in Notifiers(t) : cv_wait(t, m, n)
    \/ \E t \in Threads : cv_release(t)
    \/ \E t \in Threads : cv_wake(t)
    \/ \E t \in Threads : cv_dtor(t)

Spec == Init /\ [][Next]_vars

SpecMarking == InitMarking /\ [][Next]_vars

SpecBudgets == InitBudgets /\ [][Next]_vars

\* A program that calls only lock() and unlock(): thread 1 with one call more
\* than MaxCalls, thread 2 with two, enough for thread 1 to lose a held mutex
\* from a full stack and then wait for a mutex of thread 2.
CrossBudget == [t \in Threads |-> IF t = 1 THEN MaxCalls + 1 ELSE 2]

InitLocks == InitFields /\ budget = CrossBudget /\ marking = FALSE

NextLocks ==
    \/ \E t \in Threads, m \in Mutexes : lock(t, m)
    \/ \E t \in Threads : ls_ctor_waits(t)
    \/ \E t \in Threads : ls_ctor_reset_waiter(t)
    \/ \E t \in Threads : m_lock(t)
    \/ \E t \in Threads : m_lock_self(t)
    \/ \E t \in Threads : ls_dtor(t)
    \/ \E t \in Threads : post_lock(t)
    \/ \E t \in Threads, m \in Mutexes : unlock(t, m)
    \/ \E t \in Threads : m_unlock(t)

SpecLocks == InitLocks /\ [][NextLocks]_vars

\* A program that also opens join and queue wait scopes, and calls lock(),
\* unlock() and condition waits, those with a predicate included, inside and
\* outside them.
\* Within ScopeCalls calls no thread gets into m_.lock() on a mutex it owns,
\* so m_lock_self has no step here.
ScopeBudget == [t \in Threads |-> IF t = 1 THEN ScopeCalls ELSE 1]

InitWaits == InitFields /\ budget = ScopeBudget /\ marking = FALSE

NextWaits ==
    \/ \E t \in Threads, m \in Mutexes : lock(t, m)
    \/ \E t \in Threads : ls_ctor_waits(t)
    \/ \E t \in Threads : ls_ctor_reset_waiter(t)
    \/ \E t \in Threads : m_lock(t)
    \/ \E t \in Threads : ls_dtor(t)
    \/ \E t \in Threads : post_lock(t)
    \/ \E t \in Threads, m \in Mutexes : unlock(t, m)
    \/ \E t \in Threads : m_unlock(t)
    \/ \E t \in Threads, m \in Mutexes : \E n \in Notifiers(t) : cv_wait(t, m, n)
    \/ \E t \in Threads : cv_release(t)
    \/ \E t \in Threads : cv_stop_waiting(t)
    \/ \E t \in Threads : cv_wake(t)
    \/ \E t \in Threads : cv_dtor(t)
    \/ \E t \in Threads, tid \in WaitTids : scoped_join_wait_check(t, tid)
    \/ \E t \in Threads, tid \in WaitTids : scoped_queue_wait_check(t, tid)
    \/ \E t \in Threads : scoped_wait_check_dtor(t)

SpecWaits == InitWaits /\ [][NextWaits]_vars

\* scoped_lock<Mutex1, Mutex2>: its constructor is std::scoped_lock's, which
\* acquires through std::lock, "an unspecified series of calls to lock,
\* try_lock and unlock" of the mutexes; its destructor unlocks m1 and then
\* m2.  The calls are those of mutex_impl: lock(), try_lock() with its default
\* timeout_ns = 0, and unlock().  A thread here makes no other call: the
\* scoped_lock issues its calls one at a time, and a call is issued after the
\* one before it has returned.
ScopedCalls == MaxCalls + 3          \* calls one scoped_lock makes at most here

Returned(t) == Running /\ pc[t] = "idle" /\ budget[t] = 0

OtherMutex(t) ==
    IF scoped_lock_[t].cur = scoped_lock_[t].m1 THEN scoped_lock_[t].m2 ELSE scoped_lock_[t].m1

\* Constructor entry: std::lock starts by blocking on the first mutex.  Both
\* threads build their scoped_lock over the same mutexes, given in ascending
\* order.
scoped_lock(t, m1, m2) ==
    /\ Returned(t)
    /\ scoped_lock_[t].step = "none"
    /\ MutexOrderOf[m1] < MutexOrderOf[m2]
    /\ \A u \in Threads \ {t} :
          scoped_lock_[u].step # "none" => scoped_lock_[u].m1 = m1 /\ scoped_lock_[u].m2 = m2
    /\ scoped_lock_' = [scoped_lock_ EXCEPT ![t] =
          [step |-> "lock", m1 |-> m1, m2 |-> m2, cur |-> m1, calls |-> 1]]
    /\ budget' = [budget EXCEPT ![t] = 1]
    /\ UNCHANGED <<m_, stackVars, mutex_wait_, other_wait_info_, statVars, pc, arg,
                   discard_wait_time_, fatal, os_misuse, acquired, released,
                   ascending, mark, marking, overflowed, wait_scope, unitVars>>

\* std::lock: the blocking lock() of one mutex.
std_lock_lock(t) ==
    /\ scoped_lock_[t].step = "lock"
    /\ lock(t, scoped_lock_[t].cur)

\* std::lock: holding one mutex, it goes on to try_lock() the other.
std_lock_locked(t) ==
    /\ Returned(t)
    /\ scoped_lock_[t].step = "lock"
    /\ scoped_lock_[t].calls < ScopedCalls
    /\ scoped_lock_' = [scoped_lock_ EXCEPT ![t].step = "try", ![t].calls = @ + 1]
    /\ budget' = [budget EXCEPT ![t] = 1]
    /\ UNCHANGED <<m_, stackVars, mutex_wait_, other_wait_info_, statVars, pc, arg,
                   discard_wait_time_, fatal, os_misuse, acquired, released,
                   ascending, mark, marking, overflowed, wait_scope, unitVars>>

\* std::lock: try_lock() of the other mutex.
std_lock_try_lock(t) ==
    /\ scoped_lock_[t].step = "try"
    /\ try_lock(t, OtherMutex(t), 0)

\* std::lock: try_lock() returned true, both mutexes are held and the
\* constructor returns.
std_lock_done(t) ==
    /\ Returned(t)
    /\ scoped_lock_[t].step = "try"
    /\ m_[OtherMutex(t)] = t
    /\ scoped_lock_' = [scoped_lock_ EXCEPT ![t].step = "held"]
    /\ UNCHANGED <<m_, stackVars, mutex_wait_, other_wait_info_, statVars, pc, arg,
                   discard_wait_time_, fatal, budget, os_misuse, acquired, released,
                   ascending, mark, marking, overflowed, wait_scope, unitVars>>

\* std::lock: try_lock() returned false, it backs off by unlocking the mutex
\* it holds.
std_lock_back_off(t) ==
    /\ Returned(t)
    /\ scoped_lock_[t].step = "try"
    /\ m_[OtherMutex(t)] # t
    /\ scoped_lock_[t].calls < ScopedCalls
    /\ scoped_lock_' = [scoped_lock_ EXCEPT ![t].step = "unlock", ![t].calls = @ + 1]
    /\ budget' = [budget EXCEPT ![t] = 1]
    /\ UNCHANGED <<m_, stackVars, mutex_wait_, other_wait_info_, statVars, pc, arg,
                   discard_wait_time_, fatal, os_misuse, acquired, released,
                   ascending, mark, marking, overflowed, wait_scope, unitVars>>

\* std::lock: the unlock() of the back-off.
std_lock_unlock(t) ==
    /\ scoped_lock_[t].step = "unlock"
    /\ unlock(t, scoped_lock_[t].cur)

\* std::lock: the retry blocks on mutex m; which one it blocks on is left to
\* the library.
std_lock_retry(t, m) ==
    /\ Returned(t)
    /\ scoped_lock_[t].step = "unlock"
    /\ m \in {scoped_lock_[t].m1, scoped_lock_[t].m2}
    /\ scoped_lock_[t].calls < ScopedCalls
    /\ scoped_lock_' = [scoped_lock_ EXCEPT ![t].step = "lock", ![t].cur = m,
                                            ![t].calls = @ + 1]
    /\ budget' = [budget EXCEPT ![t] = 1]
    /\ UNCHANGED <<m_, stackVars, mutex_wait_, other_wait_info_, statVars, pc, arg,
                   discard_wait_time_, fatal, os_misuse, acquired, released,
                   ascending, mark, marking, overflowed, wait_scope, unitVars>>

\* ~scoped_lock: it unlocks m1 first.
scoped_lock_dtor(t) ==
    /\ Returned(t)
    /\ scoped_lock_[t].step = "held"
    /\ scoped_lock_' = [scoped_lock_ EXCEPT ![t].step = "dtor_m1"]
    /\ budget' = [budget EXCEPT ![t] = 1]
    /\ UNCHANGED <<m_, stackVars, mutex_wait_, other_wait_info_, statVars, pc, arg,
                   discard_wait_time_, fatal, os_misuse, acquired, released,
                   ascending, mark, marking, overflowed, wait_scope, unitVars>>

scoped_lock_dtor_unlock_m1(t) ==
    /\ scoped_lock_[t].step = "dtor_m1"
    /\ unlock(t, scoped_lock_[t].m1)

\* ~scoped_lock: then m2.
scoped_lock_dtor_next(t) ==
    /\ Returned(t)
    /\ scoped_lock_[t].step = "dtor_m1"
    /\ scoped_lock_' = [scoped_lock_ EXCEPT ![t].step = "dtor_m2"]
    /\ budget' = [budget EXCEPT ![t] = 1]
    /\ UNCHANGED <<m_, stackVars, mutex_wait_, other_wait_info_, statVars, pc, arg,
                   discard_wait_time_, fatal, os_misuse, acquired, released,
                   ascending, mark, marking, overflowed, wait_scope, unitVars>>

scoped_lock_dtor_unlock_m2(t) ==
    /\ scoped_lock_[t].step = "dtor_m2"
    /\ unlock(t, scoped_lock_[t].m2)

InitScoped == InitFields /\ budget = [t \in Threads |-> 0] /\ marking = FALSE

NextScoped ==
    \/ \E t \in Threads, m1 \in Mutexes, m2 \in Mutexes : scoped_lock(t, m1, m2)
    \/ \E t \in Threads : std_lock_lock(t)
    \/ \E t \in Threads : std_lock_locked(t)
    \/ \E t \in Threads : std_lock_try_lock(t)
    \/ \E t \in Threads : std_lock_done(t)
    \/ \E t \in Threads : std_lock_back_off(t)
    \/ \E t \in Threads : std_lock_unlock(t)
    \/ \E t \in Threads, m \in Mutexes : std_lock_retry(t, m)
    \/ \E t \in Threads : scoped_lock_dtor(t)
    \/ \E t \in Threads : scoped_lock_dtor_unlock_m1(t)
    \/ \E t \in Threads : scoped_lock_dtor_next(t)
    \/ \E t \in Threads : scoped_lock_dtor_unlock_m2(t)
    \/ \E t \in Threads : ls_ctor_waits(t)
    \/ \E t \in Threads : ls_ctor_reset_waiter(t)
    \/ \E t \in Threads : m_lock(t)
    \/ \E t \in Threads : ls_dtor(t)
    \/ \E t \in Threads : post_lock(t)
    \/ \E t \in Threads : m_unlock(t)

SpecScoped == InitScoped /\ [][NextScoped]_vars

\* unique_lock<Mutex> for an audio mutex.  ul_ is a std::unique_lock over the
\* std::mutex of mutex_, so ul_.owns_lock() is "this thread owns m_" as long as
\* the thread acquires the mutex through its unique_lock only.
owns_lock(t, m) == m_[m] = t

\* unique_lock::lock, also run by the constructor: pre_lock, ul_.try_lock(),
\* else a lock_scoped_stat around ul_.lock(), post_lock.  These are the
\* statements of mutex_impl::lock with ul_ for m_.
unique_lock_lock(t, m) == lock(t, m)

\* unique_lock::unlock: pre_unlock, ul_.unlock().
unique_lock_unlock(t, m) == unlock(t, m)

\* unique_lock::try_lock: pre_lock, ul_.try_lock(), post_lock if it succeeded.
unique_lock_try_lock(t, m) == try_lock(t, m, 0)

\* unique_lock::try_lock_for and unique_lock::try_lock_until up to and
\* including pre_lock; the two differ in how the time limit is given.  No
\* lock_scoped_stat is constructed before ul_.try_lock_for().
unique_lock_try_lock_for(t, m) ==
    /\ CanCall(t)
    /\ budget' = [budget EXCEPT ![t] = @ - 1]
    /\ IF pre_lock(pairs_[t], m) # "none"
       THEN /\ fatal' = pre_lock(pairs_[t], m)
            /\ ascending' = [ascending EXCEPT ![t] = FALSE]
            /\ UNCHANGED <<pc, arg, mark>>
       ELSE /\ UNCHANGED fatal
            /\ ascending' = [ascending EXCEPT ![t] = FALSE]
            /\ \E k \in MarkAtLock(t) : mark' = [mark EXCEPT ![t] = k]
            /\ arg' = [arg EXCEPT ![t] = m]
            /\ pc' = [pc EXCEPT ![t] = "ul_try_lock_for"]
    /\ UNCHANGED <<m_, stackVars, mutex_wait_, other_wait_info_, statVars, acquired,
                   discard_wait_time_, os_misuse, released, marking, overflowed,
                   wait_scope, scoped_lock_, unitVars>>

\* ul_.try_lock_for() returns true; post_lock follows.
ul_try_lock_for_true(t) ==
    /\ Running /\ pc[t] = "ul_try_lock_for"
    /\ m_[arg[t]] = kInvalidTid
    /\ m_' = [m_ EXCEPT ![arg[t]] = t]
    /\ Acquire(arg[t])
    /\ pc' = [pc EXCEPT ![t] = "post_lock"]
    /\ UNCHANGED <<stackVars, mutex_wait_, other_wait_info_, statVars, arg,
                   discard_wait_time_, fatal, budget, os_misuse, released,
                   ascending, mark, marking, overflowed, wait_scope, scoped_lock_, unitVars>>

\* ul_.try_lock_for() returns false when the time is over and another thread
\* still owns the mutex; try_lock_for returns false.
ul_try_lock_for_false(t) ==
    /\ Running /\ pc[t] = "ul_try_lock_for"
    /\ m_[arg[t]] \notin {kInvalidTid, t}
    /\ pc' = [pc EXCEPT ![t] = "idle"]
    /\ arg' = [arg EXCEPT ![t] = NullHandle]
    /\ UNCHANGED <<m_, stackVars, mutex_wait_, other_wait_info_, statVars,
                   discard_wait_time_, fatal, budget, os_misuse, acquired, released,
                   ascending, mark, marking, overflowed, wait_scope, scoped_lock_, unitVars>>

\* ~unique_lock: if (owns_lock()) unlock(); it does nothing otherwise.
unique_lock_dtor(t, m) ==
    /\ owns_lock(t, m)
    /\ unlock(t, m)

InitUnique == InitFields /\ budget = ScopeBudget /\ marking = FALSE

NextUnique ==
    \/ \E t \in Threads, m \in Mutexes : unique_lock_lock(t, m)
    \/ \E t \in Threads, m \in Mutexes : unique_lock_unlock(t, m)
    \/ \E t \in Threads, m \in Mutexes : unique_lock_try_lock(t, m)
    \/ \E t \in Threads, m \in Mutexes : unique_lock_try_lock_for(t, m)
    \/ \E t \in Threads : ul_try_lock_for_true(t)
    \/ \E t \in Threads : ul_try_lock_for_false(t)
    \/ \E t \in Threads, m \in Mutexes : unique_lock_dtor(t, m)
    \/ \E t \in Threads : ls_ctor_waits(t)
    \/ \E t \in Threads : ls_ctor_reset_waiter(t)
    \/ \E t \in Threads : m_lock(t)
    \/ \E t \in Threads : ls_dtor(t)
    \/ \E t \in Threads : post_lock(t)
    \/ \E t \in Threads : m_unlock(t)

SpecUnique == InitUnique /\ [][NextUnique]_vars

\* thread_registry.  registry_ maps a tid to the descriptor registered for it;
\* a descriptor is its tid_ and the identity of the object.
RegistryTids == Threads \cup {3}
Descriptors == [tid_ : RegistryTids, id : {1, 2}]

\* registry_.erase(tid)
erase(registry, tid) == [k \in DOMAIN registry \ {tid} |-> registry[k]]

\* add_to_registry storing the descriptor whether or not its tid is a key.
add_to_registry_overwrites(tminfo) ==
    /\ registry_' = [k \in DOMAIN registry_ \cup {tminfo.tid_} |->
                         IF k = tminfo.tid_ THEN tminfo ELSE registry_[k]]
    /\ registry_ret' = [registry_ret EXCEPT !.add_to_registry =
                            IF tminfo.tid_ \in DOMAIN registry_ THEN "false" ELSE "true"]
    /\ round_trip' = [stage |-> "added", keys |-> DOMAIN registry_, tid_ |-> tminfo.tid_]
    /\ UNCHANGED <<mutexVars, fdVars, spdifVars, removing>>

\* add_to_registry(tminfo): returns false and leaves registry_ alone when
\* tminfo->tid_ is a key already, else registry_[tminfo->tid_] = tminfo.
add_to_registry(tminfo) ==
    /\ registry_' = IF tminfo.tid_ \in DOMAIN registry_
                    THEN registry_
                    ELSE [k \in DOMAIN registry_ \cup {tminfo.tid_} |->
                             IF k = tminfo.tid_ THEN tminfo ELSE registry_[k]]
    /\ registry_ret' = [registry_ret EXCEPT !.add_to_registry =
                            IF tminfo.tid_ \in DOMAIN registry_ THEN "false" ELSE "true"]
    /\ round_trip' = [stage |-> "added", keys |-> DOMAIN registry_, tid_ |-> tminfo.tid_]
    /\ UNCHANGED <<mutexVars, fdVars, spdifVars, removing>>

\* remove_from_registry(tid): registry_.erase(tid), whether or not tid is a key.
remove_from_registry(tid) ==
    /\ registry_' = erase(registry_, tid)
    /\ registry_ret' = [registry_ret EXCEPT !.remove_from_registry =
                            IF tid \in DOMAIN registry_ THEN "true" ELSE "false"]
    /\ round_trip' = IF round_trip.stage = "added" /\ round_trip.tid_ = tid
                     THEN [round_trip EXCEPT !.stage = "removed"]
                     ELSE NoRoundTrip
    /\ UNCHANGED <<mutexVars, fdVars, spdifVars, removing>>

\* The registry after the threads have registered their descriptors and no
\* thread has made a call.
InitRegistry == InitFields /\ budget = [t \in Threads |-> 0] /\ marking = FALSE

NextRegistry ==
    \/ \E d \in Descriptors : add_to_registry(d) /\ UNCHANGED lifecycleVars
    \/ \E tid \in RegistryTids : remove_from_registry(tid) /\ UNCHANGED lifecycleVars

SpecRegistry == InitRegistry /\ [][NextRegistry]_vars

\* The wait variants with a predicate: cv_.wait(lock, stop_waiting) is
\* "while (!stop_waiting()) wait(lock);" inside the one cv_wait_scoped_stat of
\* the call.  cv_.wait wakes, re-acquires the std::mutex and evaluates
\* stop_waiting().
cv_wake_predicate(t) ==
    /\ Running /\ pc[t] = "cv_sleep"
    /\ m_[arg[t]] = kInvalidTid
    /\ m_' = [m_ EXCEPT ![arg[t]] = t]
    /\ Acquire(arg[t])
    /\ pc' = [pc EXCEPT ![t] = "cv_predicate"]
    /\ UNCHANGED <<stackVars, mutex_wait_, other_wait_info_, statVars, arg,
                   discard_wait_time_, fatal, budget, os_misuse, released,
                   ascending, mark, marking, overflowed, wait_scope, scoped_lock_, unitVars>>

\* stop_waiting() is false after a wake-up: cv_.wait releases the std::mutex
\* and sleeps again.  The wake-ups of one behaviour are capped.
stop_waiting_false(t) ==
    /\ Running /\ pc[t] = "cv_predicate"
    /\ released[MutexOrderOf[arg[t]]] < MaxCalls
    /\ os_release(t)
    /\ pc' = [pc EXCEPT ![t] = "cv_sleep"]
    /\ UNCHANGED <<stackVars, mutex_wait_, other_wait_info_, statVars, arg,
                   discard_wait_time_, fatal, budget, acquired, ascending, mark, marking, overflowed, wait_scope, scoped_lock_, unitVars>>

\* stop_waiting() is true after a wake-up: cv_.wait returns.
stop_waiting_true(t) ==
    /\ Running /\ pc[t] = "cv_predicate"
    /\ pc' = [pc EXCEPT ![t] = "cv_dtor"]
    /\ UNCHANGED <<m_, stackVars, mutex_wait_, other_wait_info_, statVars, arg,
                   discard_wait_time_, fatal, budget, os_misuse, acquired, released,
                   ascending, mark, marking, overflowed, wait_scope, scoped_lock_, unitVars>>

\* Threads that lock, unlock and wait with a predicate.
NextPredicate ==
    \/ \E t \in Threads, m \in Mutexes : lock(t, m)
    \/ \E t \in Threads : ls_ctor_waits(t)
    \/ \E t \in Threads : ls_ctor_reset_waiter(t)
    \/ \E t \in Threads : m_lock(t)
    \/ \E t \in Threads : ls_dtor(t)
    \/ \E t \in Threads : post_lock(t)
    \/ \E t \in Threads, m \in Mutexes : unlock(t, m)
    \/ \E t \in Threads : m_unlock(t)
    \/ \E t \in Threads, m \in Mutexes : \E n \in Notifiers(t) : cv_wait(t, m, n)
    \/ \E t \in Threads : cv_stop_waiting(t)
    \/ \E t \in Threads : cv_release(t)
    \/ \E t \in Threads : cv_wake_predicate(t)
    \/ \E t \in Threads : stop_waiting_false(t)
    \/ \E t \in Threads : stop_waiting_true(t)
    \/ \E t \in Threads : cv_dtor(t)

SpecPredicate == InitWaits /\ [][NextPredicate]_vars

\* atomic_stack::remove one load or store at a time, as a reader in another
\* thread can observe it.  The stack has RemoveDepth slots, numbered from 0;
\* removing holds pairs_, top_, true_top_, the argument item, the locals i and
\* limit, the place in the code (pc), the result (ok) and, for the properties,
\* the stack at the call (at_call) and the handles in it.
RemoveDepth == 3
Slots == 0..(RemoveDepth - 1)

\* The stacks a remove is called on: top_ slots filled by pushes of different
\* mutexes, the slots above never written, and true_top_ above top_ only on a
\* full stack that has dropped a push.
AtomicStacks ==
    {st \in [pairs : [Slots -> {Pair(m, MutexOrderOf[m]) : m \in Mutexes} \cup {invalid_}],
             top : 0..RemoveDepth,
             true_top : 0..(RemoveDepth + 1)] :
        /\ \A j \in Slots : (j >= st.top) <=> (st.pairs[j] = invalid_)
        /\ \A j \in Slots, k \in Slots :
              (j < k /\ k < st.top) => st.pairs[j].first # st.pairs[k].first
        /\ st.true_top >= st.top
        /\ st.true_top > st.top => st.top = RemoveDepth}

\* A call remove(item) on stack st: the loads and stores follow.
atomic_stack_remove(st, item) ==
    /\ removing.pc \in {"none", "return"}
    /\ removing' = [pc |-> "entry", pairs |-> st.pairs, top |-> st.top,
                    true_top |-> st.true_top, item |-> item, i |-> 0, limit |-> 0,
                    ok |-> FALSE,
                    handles |-> {st.pairs[j].first : j \in 0..(st.top - 1)},
                    at_call |-> st]
    /\ UNCHANGED <<mutexVars, fdVars, spdifVars, registryVars, lifecycleVars>>

\* if (true_top_ == 0) return false;  --true_top_;  i = top_
remove_entry ==
    /\ removing.pc = "entry"
    /\ removing' = IF removing.true_top = 0
                   THEN [removing EXCEPT !.pc = "return", !.ok = FALSE]
                   ELSE [removing EXCEPT !.pc = "for", !.true_top = @ - 1,
                                         !.i = removing.top]
    /\ UNCHANGED <<mutexVars, fdVars, spdifVars, registryVars, lifecycleVars>>

\* The for loop that restricts the range (--top_) when it finds item, before
\* the entries are shifted.
remove_for_restricts_first ==
    /\ removing.pc = "for" /\ removing.i > 0
    /\ removing' = IF removing.item = removing.pairs[removing.i - 1].first
                   THEN [removing EXCEPT !.pc = "while", !.i = @ - 1,
                                         !.limit = removing.top - 1, !.top = @ - 1]
                   ELSE [removing EXCEPT !.i = @ - 1]
    /\ UNCHANGED <<mutexVars, fdVars, spdifVars, registryVars, lifecycleVars>>

\* The for loop finding item at --i and setting limit = top_ - 1.
remove_for ==
    /\ removing.pc = "for" /\ removing.i > 0
    /\ removing' = IF removing.item = removing.pairs[removing.i - 1].first
                   THEN [removing EXCEPT !.pc = "while", !.i = @ - 1,
                                         !.limit = removing.top - 1]
                   ELSE [removing EXCEPT !.i = @ - 1]
    /\ UNCHANGED <<mutexVars, fdVars, spdifVars, registryVars, lifecycleVars>>

\* The for loop ends without finding item: true when true_top_ >= top_, else
\* true_top_ = top_ and false.
remove_not_found ==
    /\ removing.pc = "for" /\ removing.i = 0
    /\ removing' = IF removing.true_top >= removing.top
                   THEN [removing EXCEPT !.pc = "return", !.ok = TRUE]
                   ELSE [removing EXCEPT !.pc = "return", !.ok = FALSE,
                                         !.true_top = removing.top]
    /\ UNCHANGED <<mutexVars, fdVars, spdifVars, registryVars, lifecycleVars>>

\* pairs_[i].first = pairs_[i + 1].first.load()
remove_assign_first ==
    /\ removing.pc = "while" /\ removing.i < removing.limit
    /\ removing' = [removing EXCEPT !.pc = "second",
                       !.pairs[removing.i].first = removing.pairs[removing.i + 1].first]
    /\ UNCHANGED <<mutexVars, fdVars, spdifVars, registryVars, lifecycleVars>>

\* pairs_[i].second = pairs_[i + 1].second.load();  ++i
remove_assign_second ==
    /\ removing.pc = "second"
    /\ removing' = [removing EXCEPT !.pc = "while", !.i = @ + 1,
                       !.pairs[removing.i].second = removing.pairs[removing.i + 1].second]
    /\ UNCHANGED <<mutexVars, fdVars, spdifVars, registryVars, lifecycleVars>>

\* --top_;  return true
remove_restrict ==
    /\ removing.pc = "while" /\ removing.i >= removing.limit
    /\ removing' = [removing EXCEPT !.pc = "return", !.ok = TRUE, !.top = @ - 1]
    /\ UNCHANGED <<mutexVars, fdVars, spdifVars, registryVars, lifecycleVars>>

InitRemove == InitFields /\ budget = [t \in Threads |-> 0] /\ marking = FALSE

NextRemove ==
    \/ \E st \in AtomicStacks, item \in Mutexes : atomic_stack_remove(st, item)
    \/ remove_entry
    \/ remove_for
    \/ remove_not_found
    \/ remove_assign_first
    \/ remove_assign_second
    \/ remove_restrict

SpecRemove == InitRemove /\ [][NextRemove]_vars

\* Thread start and exit, and snapshots of the registry.  A descriptor is
\* owned through shared_ptrs (use_count); registry_ and its copies hold
\* weak_ptrs.  The last owner to let go runs ~thread_mutex_info in its own
\* thread.  The descriptor of thread y has id 2.
MaxDumps == 2

\* An OS thread starts with a tid that no thread alive has.
thread_start(w, tid) ==
    /\ agent_pc[w] = "unborn"
    /\ tid # 2
    /\ \A v \in Workers \ {w} : agent_pc[v] \in {"unborn", "exited"} \/ thread_tid[v] # tid
    /\ thread_tid' = [thread_tid EXCEPT ![w] = tid]
    /\ agent_pc' = [agent_pc EXCEPT ![w] = "once_init"]
    /\ UNCHANGED <<mutexVars, fdVars, spdifVars, registryVars, removing, thread_tminfo, agent_obj, use_count,
                   destroyed, registry_mutex_, registry_map, dumps>>

\* get_thread_mutex_info, first call on the thread: make_shared of the
\* descriptor, then add_to_registry(info) up to its lock_guard.
get_thread_mutex_info(w) ==
    /\ agent_pc[w] = "once_init"
    /\ LET info == [tid_ |-> thread_tid[w], id |-> 2] IN
         /\ agent_obj' = [agent_obj EXCEPT ![w] = info]
         /\ use_count' = [use_count EXCEPT ![info] = {w}]
    /\ agent_pc' = [agent_pc EXCEPT ![w] = "add_lock"]
    /\ UNCHANGED <<mutexVars, fdVars, spdifVars, registryVars, removing, thread_tid, thread_tminfo,
                   destroyed, registry_mutex_, registry_map, dumps>>

\* std::lock_guard l(mutex_) of add_to_registry, remove_from_registry and
\* copy_map / copy_ordered_map: it blocks while another thread holds mutex_.
registry_lock_guard(a) ==
    /\ agent_pc[a] \in {"add_lock", "remove_lock", "copy_lock"}
    /\ registry_mutex_ = "none"
    /\ registry_mutex_' = a
    /\ agent_pc' = [agent_pc EXCEPT ![a] =
                       IF agent_pc[a] = "add_lock" THEN "add"
                       ELSE IF agent_pc[a] = "remove_lock" THEN "remove" ELSE "copy"]
    /\ UNCHANGED <<mutexVars, fdVars, spdifVars, registryVars, removing, thread_tid, thread_tminfo, agent_obj,
                   use_count, destroyed, registry_map, dumps>>

\* The body of add_to_registry and its return, which lets go of mutex_; the
\* result is ignored and the thread_local tminfo owns the descriptor.
thread_add_to_registry(w) ==
    /\ agent_pc[w] = "add"
    /\ add_to_registry(agent_obj[w])
    /\ registry_mutex_' = "none"
    /\ thread_tminfo' = [thread_tminfo EXCEPT ![w] = agent_obj[w]]
    /\ agent_obj' = [agent_obj EXCEPT ![w] = NoDescriptor]
    /\ agent_pc' = [agent_pc EXCEPT ![w] = "live"]
    /\ UNCHANGED <<thread_tid, use_count, destroyed, registry_map, dumps>>

\* The thread exits: its thread_local shared_ptr lets go of the descriptor.
\* As the last owner it enters ~thread_mutex_info, which calls
\* remove_from_registry(tid_) up to its lock_guard.
thread_exit(w) ==
    /\ agent_pc[w] = "live"
    /\ LET info == thread_tminfo[w] IN
         /\ use_count' = [use_count EXCEPT ![info] = @ \ {w}]
         /\ IF use_count[info] = {w}
            THEN /\ agent_pc' = [agent_pc EXCEPT ![w] = "remove_lock"]
                 /\ agent_obj' = [agent_obj EXCEPT ![w] = info]
            ELSE /\ agent_pc' = [agent_pc EXCEPT ![w] = "exited"]
                 /\ UNCHANGED agent_obj
    /\ thread_tminfo' = [thread_tminfo EXCEPT ![w] = NoDescriptor]
    /\ UNCHANGED <<mutexVars, fdVars, spdifVars, registryVars, removing, thread_tid,
                   destroyed, registry_mutex_, registry_map, dumps>>

\* ~thread_mutex_info returning with mutex_ still held by the destroying thread.
destructor_remove_keeps_mutex(a) ==
    /\ agent_pc[a] = "remove"
    /\ remove_from_registry(agent_obj[a].tid_)
    /\ UNCHANGED registry_mutex_
    /\ destroyed' = destroyed \cup {agent_obj[a]}
    /\ agent_obj' = [agent_obj EXCEPT ![a] = NoDescriptor]
    /\ agent_pc' = [agent_pc EXCEPT ![a] = IF a \in Workers THEN "exited" ELSE "iterate"]
    /\ UNCHANGED <<thread_tid, thread_tminfo, use_count, registry_map, dumps>>

\* ~thread_mutex_info: the body of remove_from_registry(tid_) and its return;
\* the descriptor is gone.
destructor_remove(a) ==
    /\ agent_pc[a] = "remove"
    /\ remove_from_registry(agent_obj[a].tid_)
    /\ registry_mutex_' = "none"
    /\ destroyed' = destroyed \cup {agent_obj[a]}
    /\ agent_obj' = [agent_obj EXCEPT ![a] = NoDescriptor]
    /\ agent_pc' = [agent_pc EXCEPT ![a] = IF a \in Workers THEN "exited" ELSE "iterate"]
    /\ UNCHANGED <<thread_tid, thread_tminfo, use_count, registry_map, dumps>>

\* to_string or deadlock_detection is called: copy_map / copy_ordered_map up
\* to its lock_guard.
snapshot ==
    /\ agent_pc[Dumper] = "idle"
    /\ dumps < MaxDumps
    /\ dumps' = dumps + 1
    /\ agent_pc' = [agent_pc EXCEPT ![Dumper] = "copy_lock"]
    /\ UNCHANGED <<mutexVars, fdVars, spdifVars, registryVars, removing, thread_tid, thread_tminfo, agent_obj,
                   use_count, destroyed, registry_mutex_, registry_map>>

\* copy_map: return registry_, which lets go of mutex_.
copy_map ==
    /\ agent_pc[Dumper] = "copy"
    /\ registry_map' = registry_
    /\ registry_mutex_' = "none"
    /\ agent_pc' = [agent_pc EXCEPT ![Dumper] = "iterate"]
    /\ UNCHANGED <<mutexVars, fdVars, spdifVars, registryVars, removing, thread_tid, thread_tminfo, agent_obj,
                   use_count, destroyed, dumps>>

\* The loop over the copy: info = weak_info.lock() for the entry of tid, which
\* is null when the descriptor has no owner left.
weak_info_lock(tid) ==
    /\ agent_pc[Dumper] = "iterate"
    /\ tid \in DOMAIN registry_map
    /\ registry_map' = erase(registry_map, tid)
    /\ LET info == registry_map[tid] IN
         IF use_count[info] # {}
         THEN /\ use_count' = [use_count EXCEPT ![info] = @ \cup {Dumper}]
              /\ agent_obj' = [agent_obj EXCEPT ![Dumper] = info]
              /\ agent_pc' = [agent_pc EXCEPT ![Dumper] = "info"]
         ELSE UNCHANGED <<use_count, agent_obj, agent_pc>>
    /\ UNCHANGED <<mutexVars, fdVars, spdifVars, registryVars, removing, thread_tid, thread_tminfo,
                   destroyed, registry_mutex_, dumps>>

\* info goes out of scope; as the last owner the snapshot taker enters
\* ~thread_mutex_info.
info_release ==
    /\ agent_pc[Dumper] = "info"
    /\ LET info == agent_obj[Dumper] IN
         /\ use_count' = [use_count EXCEPT ![info] = @ \ {Dumper}]
         /\ IF use_count[info] = {Dumper}
            THEN /\ agent_pc' = [agent_pc EXCEPT ![Dumper] = "remove_lock"]
                 /\ UNCHANGED agent_obj
            ELSE /\ agent_pc' = [agent_pc EXCEPT ![Dumper] = "iterate"]
                 /\ agent_obj' = [agent_obj EXCEPT ![Dumper] = NoDescriptor]
    /\ UNCHANGED <<mutexVars, fdVars, spdifVars, registryVars, removing, thread_tid, thread_tminfo,
                   destroyed, registry_mutex_, registry_map, dumps>>

\* The loop over the copy has ended and the call returns.
snapshot_return ==
    /\ agent_pc[Dumper] = "iterate"
    /\ DOMAIN registry_map = {}
    /\ agent_pc' = [agent_pc EXCEPT ![Dumper] = "idle"]
    /\ UNCHANGED <<mutexVars, fdVars, spdifVars, registryVars, removing, thread_tid, thread_tminfo, agent_obj,
                   use_count, destroyed, registry_mutex_, registry_map, dumps>>

InitLifecycle == InitFields /\ budget = [t \in Threads |-> 0] /\ marking = FALSE

NextLifecycle ==
    \/ \E w \in Workers, tid \in RegistryTids : thread_start(w, tid)
    \/ \E w \in Workers : get_thread_mutex_info(w)
    \/ \E a \in Agents : registry_lock_guard(a)
    \/ \E w \in Workers : thread_add_to_registry(w)
    \/ \E w \in Workers : thread_exit(w)
    \/ \E a \in Agents : destructor_remove(a)
    \/ snapshot
    \/ copy_map
    \/ \E tid \in RegistryTids : weak_info_lock(tid)
    \/ info_release
    \/ snapshot_return

SpecLifecycle == InitLifecycle /\ [][NextLifecycle]_vars

\* Every thread goes on running while it has a step to take.
SpecLifecycleFair == SpecLifecycle /\ WF_vars(NextLifecycle)

\* ---------------------------------------------------------- thread_registry
\* The mutex_names argument of deadlock_detection, indexed on order.
mutex_names == <<"order0", "order1", "order2">>

\* The name deadlock_detection gives an order; an order outside the table
\* (the -1 of an unset other_wait_info_ cast to size_t) is "unknown".
order_name(order) ==
    IF order >= 0 /\ order < Len(mutex_names) THEN mutex_names[order + 1] ELSE "unknown"

\* A chain label that never carries the "cv-" prefix.
chain_label_no_prefix(reason, order) ==
    IF reason = "join" THEN [prefix |-> "", name |-> "join"]
    ELSE IF reason = "queue" THEN [prefix |-> "", name |-> "queue"]
    ELSE [prefix |-> "", name |-> order_name(order)]

\* The label of a chain entry: the order name, "cv-" before it for a condition
\* wait, "join" or "queue" alone for those reasons.
chain_label(reason, order) ==
    IF reason = "cv" THEN [prefix |-> "cv-", name |-> order_name(order)]
    ELSE IF reason = "join" THEN [prefix |-> "", name |-> "join"]
    ELSE IF reason = "queue" THEN [prefix |-> "", name |-> "queue"]
    ELSE [prefix |-> "", name |-> order_name(order)]

\* deadlock_detection's "subset": some held stack has lost entries.
subset == \E t \in Threads : Len(pairs_[t]) # true_top_[t]

\* The helper maps from mutex handle to (tid, order) deadlock_detection can
\* build from the held stacks.  Within a stack the higher slot is written
\* last; between the stacks of two threads the registry map's iteration
\* order, which is unspecified, decides.
mutex_to_tid ==
    LET held == (UNION {Handles(pairs_[t]) : t \in Threads}) \ {NullHandle}
        entries(h) ==
            {[tid |-> t, order |-> pairs_[t][find_from_top(pairs_[t], h)].second] :
                t \in {u \in Threads : h \in Handles(pairs_[u])}}
    IN {f \in [held -> UNION {entries(h) : h \in held}] :
            \A h \in held : f[h] \in entries(h)}

deadlock_info_t(tid_param) ==
    [tid |-> tid_param, has_cycle |-> FALSE, other_wait_reason |-> "none", chain |-> <<>>]

\* A traversal that follows the auxiliary wait before the waiting handle.
RECURSIVE traverse_other_wait_first(_, _, _, _)
traverse_other_wait_first(map, tid2, visited, info) ==
    LET m == mutex_wait_[tid2]
        other == other_wait_info_[tid2]
        by_other == other.tid # kInvalidTid
        by_mutex == ~by_other /\ m # NullHandle /\ m \in DOMAIN map
        next_tid == IF by_mutex THEN map[m].tid ELSE other.tid
        order == IF by_mutex THEN map[m].order ELSE other.order
        reason == IF by_mutex THEN "none" ELSE other.reason
        added == [info EXCEPT
                    !.other_wait_reason = IF by_mutex THEN @ ELSE reason,
                    !.chain = Append(@, [tid |-> next_tid,
                                         label |-> chain_label(reason, order)])]
    IN IF ~by_mutex /\ ~by_other THEN info
       ELSE IF next_tid \in visited THEN [added EXCEPT !.has_cycle = TRUE]
       ELSE IF next_tid \notin Threads THEN added
       ELSE traverse_other_wait_first(map, next_tid, visited \cup {next_tid}, added)

\* The traversal loop of deadlock_detection, from the thread tid2 whose
\* mutex_wait_ and other_wait_info_ were loaded last.
RECURSIVE traverse(_, _, _, _)
traverse(map, tid2, visited, info) ==
    LET m == mutex_wait_[tid2]
        other == other_wait_info_[tid2]
        by_mutex == m # NullHandle /\ m \in DOMAIN map
        next_tid == IF by_mutex THEN map[m].tid ELSE other.tid
        order == IF by_mutex THEN map[m].order ELSE other.order
        reason == IF by_mutex THEN "none" ELSE other.reason
        added == [info EXCEPT
                    !.other_wait_reason = IF by_mutex THEN @ ELSE reason,
                    !.chain = Append(@, [tid |-> next_tid,
                                         label |-> chain_label(reason, order)])]
    IN IF ~by_mutex /\ other.tid = kInvalidTid THEN info
       ELSE IF next_tid \in visited THEN [added EXCEPT !.has_cycle = TRUE]
       ELSE IF next_tid \notin Threads THEN added
       ELSE traverse(map, next_tid, visited \cup {next_tid}, added)

\* deadlock_detection that puts the target tid at the start of the chain.
deadlock_detection_chain_from_target(tid, map) ==
    IF tid \notin Threads THEN deadlock_info_t(tid)
    ELSE LET d == traverse(map, tid, {tid}, deadlock_info_t(tid)) IN
         IF d.chain = <<>> THEN d
         ELSE [d EXCEPT !.chain = <<[tid |-> tid, label |-> d.chain[1].label]>> \o @]

\* deadlock_detection that does not mark the target tid as visited.
deadlock_detection_target_unvisited(tid, map) ==
    IF tid \notin Threads THEN deadlock_info_t(tid)
    ELSE traverse(map, tid, {}, deadlock_info_t(tid))

\* thread_registry::deadlock_detection(tid, mutex_names) with the helper map
\* it built.
deadlock_detection(tid, map) ==
    IF tid \notin Threads THEN deadlock_info_t(tid)
    ELSE traverse(map, tid, {tid}, deadlock_info_t(tid))

\* ------------------------------------------------------------- properties

\* Every handle in a held stack is owned, at the std::mutex, by the thread of
\* that stack.
HeldStackOwned == \A t \in Threads : \A h \in Handles(pairs_[t]) : m_[h] = t

\* No handle is in the held stacks of two threads.
HeldStacksDisjoint ==
    \A t, u \in Threads : t # u => Handles(pairs_[t]) \cap Handles(pairs_[u]) = {}

\* C1 as stated: at every instant a handle is in the held stack of at most one
\* thread, and that thread owns the std::mutex.
C1_AsStated == HeldStackOwned /\ HeldStacksDisjoint

\* C1 amended: as long as no std::mutex has been released by a thread that does
\* not own it, a handle is in the held stack of at most one thread, and that
\* thread owns the std::mutex.
C1_HeldStackOwned == ~os_misuse => (HeldStackOwned /\ HeldStacksDisjoint)

\* While one thread sleeps in a condition wait on a mutex, another thread has
\* acquired that mutex and holds it on its stack.
C1_Witness ==
    /\ ~os_misuse
    /\ \E t, u \in Threads :
         /\ t # u
         /\ pc[t] = "cv_sleep"
         /\ arg[t] \in Handles(pairs_[u])

\* A call of lock or try_lock on mutex m by thread t.
LockCall(t, m) == lock(t, m) \/ \E timeout_ns \in Timeouts : try_lock(t, m, timeout_ns)

\* Some slot of thread t's held stack has an order above the order of m.
HoldsHigherOrder(t, m) ==
    \E i \in DOMAIN pairs_[t] : pairs_[t][i].second > MutexOrderOf[m]

\* C2: a lock or try_lock of m by a thread whose held stack has, anywhere, an
\* entry of order above order(m) ends the process, with the std::mutex, the
\* locks and waits counters and the held stack untouched.
C2_InversionAnywhereFatal ==
    [][\A t \in Threads, m \in Mutexes :
         (LockCall(t, m) /\ HoldsHigherOrder(t, m))
            => /\ fatal' # "none"
               /\ UNCHANGED <<m_, locks, waits, pairs_, true_top_>>]_vars

\* C3 as stated: in every state without a process-fatal the orders of a held
\* stack are strictly increasing from bottom to top.
C3_AsStated ==
    Running =>
      \A t \in Threads : \A i, j \in DOMAIN pairs_[t] :
          i < j => pairs_[t][i].second < pairs_[t][j].second

\* C3 amended: the entry that lock or try_lock pushes has an order not below the
\* order of the entry that was on top, and equal to it only for another handle;
\* entries of one order may so share a stack.
C3_PushNotBelowTop ==
    [][\A t \in Threads :
         (post_lock(t) /\ pairs_[t] # <<>>)
            => LET old == pairs_[t][Len(pairs_[t])]
                   new == pairs_'[t][Len(pairs_'[t])]
               IN /\ new.first = arg[t]
                  /\ old.second <= new.second
                  /\ (old.second = new.second => old.first # new.first)]_vars

\* A held stack with two entries of one order.
C3_Witness ==
    /\ Running
    /\ \E t \in Threads : \E i, j \in DOMAIN pairs_[t] :
         /\ i < j
         /\ pairs_[t][i].second = pairs_[t][j].second
         /\ pairs_[t][i].first # pairs_[t][j].first

\* C4: while no process-fatal is raised the orders of a held stack are
\* non-decreasing from bottom to top, condition waits included.
C4_NonDecreasing ==
    Running =>
      \A t \in Threads : \A i, j \in DOMAIN pairs_[t] :
          i < j => pairs_[t][i].second <= pairs_[t][j].second

\* Thread t's held stack has an entry of m's order under another handle.
HoldsSameOrder(t, m) ==
    \E i \in DOMAIN pairs_[t] :
        pairs_[t][i].second = MutexOrderOf[m] /\ pairs_[t][i].first # m

\* C5 as stated: lock or try_lock of B by a thread holding a different mutex of
\* the same order ends the process.
C5_AsStated ==
    [][\A t \in Threads, m \in Mutexes :
         (LockCall(t, m) /\ HoldsSameOrder(t, m)) => fatal' # "none"]_vars

\* C5 amended: the recursion fatal is raised only for a mutex whose own handle is
\* in the held stack; a lock or try_lock of a mutex not in the stack, by a thread
\* holding nothing of a higher order, is let through even when the thread holds
\* another mutex of the same order.
C5_RecursionIsSameHandle ==
    [][\A t \in Threads, m \in Mutexes :
         LockCall(t, m)
            => /\ fatal' = "recursion" => m \in Handles(pairs_[t])
               /\ (m \notin Handles(pairs_[t]) /\ ~HoldsHigherOrder(t, m))
                     => fatal' = "none"]_vars

\* A thread has been let through the checks, and has acquired the std::mutex,
\* for a mutex of an order it already holds.
C5_Witness ==
    /\ Running
    /\ \E t \in Threads :
         /\ pc[t] = "post_lock"
         /\ HoldsSameOrder(t, arg[t])
         /\ arg[t] \notin Handles(pairs_[t])

\* C6: lock or try_lock of a mutex whose handle is in the caller's held stack
\* ends the process.
C6_OwnHandleFatal ==
    [][\A t \in Threads, m \in Mutexes :
         (LockCall(t, m) /\ m \in Handles(pairs_[t])) => fatal' # "none"]_vars

\* C7 as stated: unlock of a mutex the caller does not own ends the process, the
\* std::mutex untouched, in every state of the held stack.
C7_AsStated ==
    [][\A t \in Threads, m \in Mutexes :
         (unlock(t, m) /\ m_[m] # t)
            => fatal' = "invalid_unlock" /\ m_' = m_]_vars

\* C7 amended: unlock of a mutex whose handle is not in the caller's held stack
\* ends the process exactly when the stack tracks everything the thread holds
\* (logical size = physical size); when pushes beyond the capacity have been
\* dropped the unlock is taken for one of the dropped entries and goes on to
\* release the std::mutex.
C7_InvalidUnlockFatalIffComplete ==
    [][\A t \in Threads, m \in Mutexes :
         (unlock(t, m) /\ m \notin Handles(pairs_[t]))
            => /\ m_' = m_
               /\ fatal' = "invalid_unlock" <=> true_top_[t] = Len(pairs_[t])
               /\ fatal' = "none" <=> pc'[t] = "m_unlock"]_vars

\* An unlock of a mutex the caller does not own has ended the process.
C7_Witness ==
    /\ fatal = "invalid_unlock"
    /\ ~os_misuse
    /\ \E t \in Threads : pc[t] = "idle" /\ true_top_[t] = Len(pairs_[t])

\* The largest element of a non-empty set of slot indexes.
Topmost(S) == CHOOSE i \in S : \A j \in S : j <= i

\* Pushing m keeps the orders strictly increasing and duplicates no handle.
StrictPushOk(pairs, m) ==
    /\ \A i \in DOMAIN pairs : pairs[i].second < MutexOrderOf[m]
    /\ m \notin Handles(pairs)

\* The slots with an order not below m's order, or with m's handle.
NotBelowOrSame(pairs, m) ==
    {i \in DOMAIN pairs : pairs[i].second >= MutexOrderOf[m] \/ pairs[i].first = m}

\* C8 as stated: check_held returns the invalid pair iff the push would keep the
\* orders strictly increasing and duplicate no handle, and else the topmost entry
\* whose order is not below order or whose handle is handle.
C8_AsStated ==
    \A t \in Threads, m \in Mutexes :
        LET r == check_held(pairs_[t], m, MutexOrderOf[m])
        IN /\ r = invalid_ <=> StrictPushOk(pairs_[t], m)
           /\ r # invalid_ => r = pairs_[t][Topmost(NotBelowOrSame(pairs_[t], m))]

\* The slots check_held examines: those from the top down to, and without, the
\* first one of an order below m's order.
Examined(pairs, m) ==
    {i \in DOMAIN pairs : \A j \in i..Len(pairs) : pairs[j].second >= MutexOrderOf[m]}

\* The examined slots that conflict: a higher order, or m's own handle.
Conflicts(pairs, m) ==
    {i \in Examined(pairs, m) :
        pairs[i].second > MutexOrderOf[m] \/ pairs[i].first = m}

\* C8 amended: check_held examines the entries from the top down to the first one
\* of lower order; it returns the invalid pair iff none of them has a higher
\* order or the same handle, and else the topmost of those.  An entry of equal
\* order and another handle is no conflict, and on a stack of non-decreasing
\* orders the invalid pair means that the push keeps the orders non-decreasing
\* and duplicates no handle.
C8_CheckHeld ==
    \A t \in Threads, m \in Mutexes :
        LET r == check_held(pairs_[t], m, MutexOrderOf[m])
            c == Conflicts(pairs_[t], m)
        IN /\ r = invalid_ <=> c = {}
           /\ c # {} => r = pairs_[t][Topmost(c)]
           /\ (\A i, j \in DOMAIN pairs_[t] :
                  i < j => pairs_[t][i].second <= pairs_[t][j].second)
                => (r = invalid_ <=>
                      /\ \A i \in DOMAIN pairs_[t] :
                            pairs_[t][i].second <= MutexOrderOf[m]
                      /\ m \notin Handles(pairs_[t]))

\* A held stack for which check_held returns the invalid pair, for a mutex of an
\* order that is on the stack.
C8_Witness ==
    \E t \in Threads, m \in Mutexes :
        /\ check_held(pairs_[t], m, MutexOrderOf[m]) = invalid_
        /\ HoldsSameOrder(t, m)
        /\ pc[t] = "idle"

\* Thread t is the only thread that has issued calls.
OnlyThread(t) == \A u \in Threads \ {t} : budget[u] = CallBudget[u]

\* The mutexes thread t owns in the order of their acquisitions, which for an
\* ascending thread is the order of their orders.
HeldList(t) ==
    [i \in 1..Cardinality(Owned(t)) |->
        CHOOSE m \in Owned(t) :
            Cardinality({h \in Owned(t) : MutexOrderOf[h] < MutexOrderOf[m]}) = i - 1]

\* C9: for a single thread that locks in strictly ascending order, within the
\* stack depth, and unlocks what it holds in any order, after every call the held
\* stack is the list of held mutexes in acquisition order and the locks and
\* unlocks counters of every order are the numbers of acquisitions and releases.
C9_StackIsHeldList ==
    \A t \in Threads :
        (ascending[t] /\ pc[t] = "idle" /\ OnlyThread(t))
           => /\ pairs_[t] = [i \in 1..Cardinality(Owned(t)) |->
                                 Pair(HeldList(t)[i], MutexOrderOf[HeldList(t)[i]])]
              /\ true_top_[t] = Cardinality(Owned(t))
              /\ \A o \in Orders : locks[o] = acquired[o] /\ unlocks[o] = released[o]

\* lock 1 (order 0), lock 3 (order 2), unlock 1: the stack is [3].
C9_Witness ==
    /\ ascending[1] /\ pc[1] = "idle" /\ OnlyThread(1) /\ Running
    /\ pairs_[1] = <<Pair(3, 2)>>
    /\ locks[0] = 1 /\ locks[2] = 1 /\ unlocks[0] = 1 /\ unlocks[2] = 0

\* Thread t has released, by its own unlock calls, everything it acquired since
\* the recorded lock call: it owns what it owned then, and no std::mutex was
\* released by another thread than its owner.
Balanced(t) ==
    mark[t].set /\ pc[t] = "idle" /\ Owned(t) = mark[t].held /\ ~os_misuse

\* C10 as stated: a balanced sequence lock(m) ... unlock(m) leaves the entries,
\* the physical size and the logical size of the held stack as they were, from
\* every prior stack.
C10_AsStated ==
    \A t \in Threads :
        Balanced(t) => pairs_[t] = mark[t].pairs /\ true_top_[t] = mark[t].true_top

\* C10 amended: a balanced sequence lock(m) ... unlock(m) leaves the logical size
\* as it was, and the entries and the physical size too when the stack was below
\* its physical capacity before the sequence; from a stack at capacity the
\* sequence drops the top entry.
C10_BalancedRestores ==
    \A t \in Threads :
        Balanced(t)
           => /\ true_top_[t] = mark[t].true_top
              /\ Len(mark[t].pairs) < StackDepth => pairs_[t] = mark[t].pairs

\* A thread with a non-empty stack below capacity has locked and unlocked since
\* the recorded call.
C10_Witness ==
    \E t \in Threads :
        /\ Balanced(t) /\ Running
        /\ mark[t].pairs # <<>>
        /\ Len(mark[t].pairs) < StackDepth
        /\ budget[t] <= mark[t].budget - 2

\* The slots of a stack below its top slot are those of another stack.
SameBelowTop(pairs, other) ==
    \A i \in 1..(Len(pairs) - 1) : i \in DOMAIN other /\ other[i] = pairs[i]

\* C11: a push on a stack whose physical size is the capacity overwrites the top
\* slot, leaves the physical size and increments the logical size; a remove of
\* a handle that is not in the physical stack succeeds exactly when the logical
\* size was above the physical size; and the physical size is at most the
\* capacity and at most the logical size after every push and remove.
C11_PushRemoveAtCapacity ==
    \A t \in Threads :
        /\ Len(pairs_[t]) <= StackDepth
        /\ true_top_[t] >= Len(pairs_[t])
        /\ \A m \in Mutexes :
             LET p == push(pairs_[t], true_top_[t], m, MutexOrderOf[m])
                 r == remove(pairs_[t], true_top_[t], m)
             IN /\ Len(p.pairs) <= StackDepth /\ p.true_top >= Len(p.pairs)
                /\ Len(r.pairs) <= StackDepth /\ r.true_top >= Len(r.pairs)
                /\ p.true_top = true_top_[t] + 1
                /\ Len(pairs_[t]) = StackDepth
                     => /\ Len(p.pairs) = StackDepth
                        /\ p.pairs[StackDepth] = Pair(m, MutexOrderOf[m])
                        /\ SameBelowTop(pairs_[t], p.pairs)
                /\ m \notin Handles(pairs_[t])
                     => /\ r.ok <=> true_top_[t] > Len(pairs_[t])
                        /\ r.pairs = pairs_[t]
                        /\ r.true_top = IF r.ok THEN true_top_[t] - 1 ELSE Len(pairs_[t])

\* A push was made on a full stack: the logical size is above the capacity.
C11_Witness ==
    \E t \in Threads :
        Len(pairs_[t]) = StackDepth /\ true_top_[t] > StackDepth /\ pc[t] = "idle"

\* A call by thread t that releases mutex m: unlock, or the entry to a
\* condition wait.
ReleaseCall(t, m) ==
    unlock(t, m) \/ \E notifier_tid \in Notifiers(t) : cv_wait(t, m, notifier_tid)

\* Thread t holds nothing and its held stack is empty, physically and logically.
HoldsNothing(t) == Len(pairs_[t]) = 0 /\ true_top_[t] = 0

\* C12: a thread that releases mutexes it holds, after holding more of them than
\* the stack depth, in any order and between further acquisitions, gets no
\* invalid-unlock fatal, and once it has released everything the physical and the
\* logical size of its held stack are 0.
C12_OverflowReleasedClean ==
    /\ [][\A t \in Threads, m \in Mutexes :
            (ReleaseCall(t, m) /\ m_[m] = t /\ ~os_misuse) => fatal' = "none"]_vars
    /\ [](\A t \in Threads :
            (pc[t] = "idle" /\ Owned(t) = {} /\ ~os_misuse) => HoldsNothing(t))

\* The thread alone has held more mutexes than the stack depth, and has released
\* them all.
C12_Witness ==
    /\ Running /\ ~os_misuse
    /\ \E t \in Threads :
         overflowed[t] /\ pc[t] = "idle" /\ Owned(t) = {} /\ HoldsNothing(t)

\* The mutexes of order o whose std::mutex is owned by some thread.
HeldOfOrder(o) == {m \in Mutexes : MutexOrderOf[m] = o /\ m_[m] # kInvalidTid}

\* C13 as stated: at every instant locks(o) - unlocks(o) is the number of
\* mutexes of order o that are held.
C13_AsStated ==
    \A o \in Orders : locks[o] - unlocks[o] = Cardinality(HeldOfOrder(o))

\* Thread t owns the std::mutex of its running call and has not counted the
\* acquisition in locks yet (it is before post_lock, or before the destructor of
\* the condition wait), or has counted the release in unlocks already (it is
\* after pre_unlock, or after the constructor of the condition wait).
Uncounted(t) ==
    /\ arg[t] # NullHandle
    /\ m_[arg[t]] = t
    /\ \/ pc[t] \in {"post_lock", "cv_dtor", "m_unlock", "cv_release"}
       \/ pc[t] = "ls_dtor" /\ ~discard_wait_time_[t]

\* A thread is inside an unlock of a mutex it does not own.
InvalidUnlockPending == \E t \in Threads : pc[t] = "m_unlock" /\ m_[arg[t]] # t

\* No unlock of a mutex by a thread that does not own it has been let through.
NoInvalidUnlock == Running /\ ~os_misuse /\ ~InvalidUnlockPending

\* C13 amended: as long as no unlock by a non-owner has been let through,
\* locks(o) - unlocks(o) is the number of held mutexes of order o, less those
\* whose holder is between the acquisition of the std::mutex and its count in
\* locks, or between the count in unlocks and the release of the std::mutex; it
\* is the number of held mutexes of order o whenever no thread is inside a call.
C13_LocksMinusUnlocks ==
    NoInvalidUnlock =>
      \A o \in Orders :
          locks[o] - unlocks[o] =
              Cardinality(HeldOfOrder(o))
                - Cardinality({t \in Threads : Uncounted(t) /\ MutexOrderOf[arg[t]] = o})

\* A thread has acquired a std::mutex and not counted it yet, while another
\* mutex of that order is held and counted.
C13_Witness ==
    /\ NoInvalidUnlock
    /\ \E t \in Threads :
         /\ pc[t] = "post_lock"
         /\ locks[MutexOrderOf[arg[t]]] - unlocks[MutexOrderOf[arg[t]]] = 1
         /\ Cardinality(HeldOfOrder(MutexOrderOf[arg[t]])) = 2

\* The sum of a counter over a set of orders.
RECURSIVE SumOver(_, _)
SumOver(counter, S) ==
    IF S = {} THEN 0
    ELSE LET o == CHOOSE x \in S : TRUE
         IN counter[o] + SumOver(counter, S \ {o})

\* C14 as stated: while no process-fatal is raised, the sum of locks over the
\* orders is at least the sum of unlocks, and locks is at least unlocks for each
\* order.
C14_AsStated ==
    Running =>
      /\ SumOver(locks, Orders) >= SumOver(unlocks, Orders)
      /\ \A o \in Orders : locks[o] >= unlocks[o]

\* C14 amended: while no process-fatal is raised the sum of locks over the
\* orders is at least the sum of unlocks; for each order separately locks is at
\* least unlocks as long as no unlock by a non-owner has been let through.
C14_LocksAtLeastUnlocks ==
    /\ Running => SumOver(locks, Orders) >= SumOver(unlocks, Orders)
    /\ NoInvalidUnlock => \A o \in Orders : locks[o] >= unlocks[o]

\* A thread has counted an unlock, inside an unlock or a condition wait, in a
\* state where the order's locks equals its unlocks.
C14_Witness ==
    /\ NoInvalidUnlock
    /\ \E t \in Threads :
         /\ pc[t] \in {"m_unlock", "cv_sleep"}
         /\ locks[MutexOrderOf[arg[t]]] = unlocks[MutexOrderOf[arg[t]]]
         /\ unlocks[MutexOrderOf[arg[t]]] >= 1

\* C15: for every order waits is at most locks in every reachable state, also
\* while a thread is blocked in a contended lock and after a timed try_lock has
\* expired, so that locks - waits does not underflow.
C15_WaitsAtMostLocks == \A o \in Orders : waits[o] <= locks[o]

\* Every thread has only made lock calls and unlock calls of mutexes it held, and
\* all of them have finished and released what they locked.
PairsFinished ==
    /\ Running /\ ~os_misuse
    /\ \A t \in Threads : ascending[t] /\ pc[t] = "idle" /\ Owned(t) = {}

\* C16: when the threads have finished their lock/unlock pairs, every order has
\* locks = unlocks = the number of pairs made on it and waits at most locks,
\* every held stack is empty, physically and logically, and no thread has a
\* waiting handle.
C16_PairsQuiescent ==
    PairsFinished =>
      /\ \A o \in Orders :
            /\ locks[o] = acquired[o]
            /\ unlocks[o] = acquired[o]
            /\ waits[o] <= locks[o]
      /\ \A t \in Threads : HoldsNothing(t) /\ mutex_wait_[t] = NullHandle

\* Two threads have each made one lock/unlock pair on mutex 1, one of them
\* after waiting for the other.
C16_Witness ==
    /\ PairsFinished
    /\ \A t \in Threads : budget[t] = 0
    /\ locks[0] = 2 /\ unlocks[0] = 2 /\ waits[0] = 1

\* A step of thread t inside a try_lock with timeout_ns > 0 that expires: the
\* constructor of lock_scoped_stat, the failing timed lock, the destructor.
ExpiringStep(t) ==
    \/ pc[t] \in {"try_lock_ls", "try_lock_ls2"} /\ (ls_ctor_waits(t) \/ ls_ctor_reset_waiter(t))
    \/ timedlock_expire(t)
    \/ discard_wait_time_[t] /\ ls_dtor(t)

\* C17: a try_lock with timeout_ns > 0 that expires adds nothing to wait_sum_ns
\* and wait_sumsq_ns, does not increment locks, leaves the held stack as it is,
\* and returns (false, without post_lock) with the waiting handle cleared.
C17_ExpiredTryLock ==
    [][\A t \in Threads :
         /\ ExpiringStep(t)
               => UNCHANGED <<wait_sum_ns, wait_sumsq_ns, locks, pairs_, true_top_, m_>>
         /\ (discard_wait_time_[t] /\ ls_dtor(t))
               => /\ pc'[t] = "idle"
                  /\ mutex_wait_'[t] = NullHandle]_vars

\* A timed try_lock has expired and returned: a wait is counted, no wait time.
C17_Witness ==
    /\ Running
    /\ \A t \in Threads : pc[t] = "idle" /\ mutex_wait_[t] = NullHandle
    /\ \E o \in Orders : waits[o] = 1 /\ wait_sum_ns[o] = 0 /\ wait_sumsq_ns[o] = 0

\* C18: try_lock with timeout_ns <= 0 makes one non-blocking attempt and never
\* enters the timed lock; when the attempt fails it returns (false) with waits,
\* locks, the wait-time sums, the waiting handle and the held stack unchanged.
C18_NonPositiveTimeout ==
    [][\A t \in Threads, m \in Mutexes, timeout_ns \in Timeouts :
         (timeout_ns <= 0 /\ try_lock(t, m, timeout_ns) /\ fatal' = "none")
            => /\ pc'[t] \in {"idle", "post_lock"}
               /\ pc'[t] = "post_lock" <=> m_[m] = kInvalidTid
               /\ UNCHANGED <<waits, locks, wait_sum_ns, wait_sumsq_ns,
                              mutex_wait_, pairs_, true_top_>>
               /\ m_[m] # kInvalidTid => UNCHANGED <<m_, arg>>]_vars

\* The second thread's only call was a try_lock with timeout_ns <= 0 that failed:
\* it is back with nothing acquired, nothing counted and no fatal.
C18_Witness ==
    /\ Running
    /\ budget[2] = 0 /\ budget[2] < CallBudget[2] /\ pc[2] = "idle" /\ Owned(2) = {}
    /\ \A o \in Orders : waits[o] = 0 /\ unlocks[o] = 0
    /\ \E m \in Mutexes : m_[m] = 1

\* Thread t's pending acquisition has been counted in waits: it is past the
\* ++waits of the constructor of lock_scoped_stat and has not acquired yet.
CountedWaiting(t) == pc[t] \in {"lock_ls2", "try_lock_ls2", "m_lock", "timedlock"}

WaitsOn(t, u) == Running /\ pc[t] = "m_lock" /\ m_[arg[t]] = u

\* Two or more threads in cyclic order, each once, starting at any of them.
CycleOrders ==
    {c \in UNION {[1..k -> Threads] : k \in 2..Cardinality(Threads)} :
        \A i, j \in DOMAIN c : i # j => c[i] # c[j]}

NextIn(c, i) == c[(i % Len(c)) + 1]

\* The threads of c form a cycle of mutex waits.
WaitCycle(c) == \A i \in DOMAIN c : WaitsOn(c[i], NextIn(c, i))

\* The chain of the cycle c seen from c[1]: the next thread of each thread,
\* labelled with the order name of the mutex that thread waits for.
CycleChain(c) ==
    [i \in DOMAIN c |->
        [tid |-> NextIn(c, i),
         label |-> [prefix |-> "", name |-> order_name(MutexOrderOf[arg[c[i]]])]]]

\* deadlock_detection(c[1]) reports the cycle c, whichever helper map it built.
ReportsCycle(c) ==
    \A map \in mutex_to_tid :
        /\ deadlock_detection(c[1], map).has_cycle
        /\ deadlock_detection(c[1], map).chain = CycleChain(c)

NotWaiting(t) ==
    mutex_wait_[t] = NullHandle /\ other_wait_info_[t].tid = kInvalidTid

\* The wait chain from thread t ends at a thread that is not waiting.
RECURSIVE EndsNotWaiting(_, _)
EndsNotWaiting(t, seen) ==
    IF NotWaiting(t) THEN TRUE
    ELSE \E u \in Threads \ seen :
            WaitsOn(t, u) /\ EndsNotWaiting(u, seen \cup {u})

ReportsNoCycle(t) ==
    \A map \in mutex_to_tid : ~deadlock_detection(t, map).has_cycle

\* C20 as the specification states it: in every cycle of mutex waits,
\* deadlock_detection of a thread of the cycle returns has_cycle with the
\* chain of the cycle; when the wait chain ends at a thread that is not
\* waiting, has_cycle is false.
C20_AsStated ==
    /\ \A c \in CycleOrders : WaitCycle(c) => ReportsCycle(c)
    /\ \A t \in Threads : EndsNotWaiting(t, {t}) => ReportsNoCycle(t)

\* Every mutex waited for in the cycle c is in the held stack of its owner.
CycleRecorded(c) ==
    \A i \in DOMAIN c : arg[c[i]] \in Handles(pairs_[NextIn(c, i)])

\* C20: in a cycle of mutex waits in which every waited mutex is still in
\* the held stack of the thread owning it, deadlock_detection of a thread of
\* the cycle returns has_cycle and the chain of the k threads after it, each
\* labelled with the order name of the mutex the thread before it waits for;
\* when the wait chain from the target ends at a thread that is not waiting,
\* has_cycle is false.  A mutex a full held stack has lost is in no helper
\* map, and a cycle through it is not reported.
C20_DeadlockDetection ==
    /\ \A c \in CycleOrders : (WaitCycle(c) /\ CycleRecorded(c)) => ReportsCycle(c)
    /\ \A t \in Threads : EndsNotWaiting(t, {t}) => ReportsNoCycle(t)

\* Two threads wait for each other's mutex, both mutexes recorded, and the
\* detection reports the chain of two entries.
C20_Witness ==
    /\ WaitCycle(<<1, 2>>) /\ CycleRecorded(<<1, 2>>)
    /\ ReportsCycle(<<1, 2>>)
    /\ Len(CycleChain(<<1, 2>>)) = 2

\* Thread t is inside condition_variable::wait on mutex a naming thread u as
\* notifier: its cv_wait_scoped_stat object is alive.
InCvWait(t, a, u) ==
    /\ Running /\ pc[t] \in {"cv_release", "cv_sleep", "cv_dtor"}
    /\ arg[t] = a
    /\ other_wait_info_[t].tid = u

CvLabel(a) == [prefix |-> "cv-", name |-> order_name(MutexOrderOf[a])]

MutexLabel(a) == [prefix |-> "", name |-> order_name(MutexOrderOf[a])]

\* Thread u is in m_.lock() of mutex a, which some thread owns.
BlockedAcquiring(u, a) ==
    Running /\ pc[u] = "m_lock" /\ arg[u] = a /\ m_[a] # kInvalidTid

CvWaitOffStack(t, a) == a \notin Handles(pairs_[t])

C21_WitnessSameMutex ==
    ~os_misuse /\ InCvWait(1, 4, 2) /\ CvWaitOffStack(1, 4) /\ BlockedAcquiring(2, 4)

\* C22: whenever deadlock_detection returns has_cycle, the tid of the last
\* element of the chain appears in an earlier element of the chain.
C22_LastTidRepeated ==
    \A t \in Threads : \A map \in mutex_to_tid :
        LET d == deadlock_detection(t, map) IN
        d.has_cycle =>
            \E i \in 1..(Len(d.chain) - 1) : d.chain[i].tid = d.chain[Len(d.chain)].tid

\* What the traversal does give: the last tid is the target or in an earlier element.
LastTidVisited ==
    \A t \in Threads : \A map \in mutex_to_tid :
        LET d == deadlock_detection(t, map) IN
        d.has_cycle =>
            \/ d.chain[Len(d.chain)].tid = d.tid
            \/ \E i \in 1..(Len(d.chain) - 1) : d.chain[i].tid = d.chain[Len(d.chain)].tid

\* The tids deadlock_detection may be asked about: the registered threads and
\* one tid the registry does not know.
TargetTids == Threads \cup {3}

\* Thread t's waiting handle is non-null and in the helper map.
HandleFound(map, t) == mutex_wait_[t] # NullHandle /\ mutex_wait_[t] \in DOMAIN map

AuxWaiting(t) == other_wait_info_[t].tid # kInvalidTid

\* The edge out of thread t: through the waiting handle when the map knows
\* it, else through the auxiliary wait, labelled by its reason.
HopEdge(map, t) ==
    IF HandleFound(map, t)
    THEN [tid |-> map[mutex_wait_[t]].tid,
          label |-> [prefix |-> "", name |-> order_name(map[mutex_wait_[t]].order)]]
    ELSE [tid |-> other_wait_info_[t].tid,
          label |-> IF other_wait_info_[t].reason = "cv"
                    THEN [prefix |-> "cv-", name |-> order_name(other_wait_info_[t].order)]
                    ELSE [prefix |-> "", name |-> other_wait_info_[t].reason]]

HasHop(map, t) == t \in Threads /\ (HandleFound(map, t) \/ AuxWaiting(t))

Last(S) == CHOOSE i \in S : \A j \in S : j <= i

\* The result d of deadlock_detection(tid) with the helper map follows, hop
\* by hop, the edges HopEdge gives, and stops only at a repeated tid or where
\* there is no edge.
FollowsHops(tid, map, d) ==
    LET from(i) == IF i = 1 THEN tid ELSE d.chain[i - 1].tid
        aux == {i \in DOMAIN d.chain : ~HandleFound(map, from(i))}
        end == IF d.chain = <<>> THEN tid ELSE d.chain[Len(d.chain)].tid
    IN /\ \A i \in DOMAIN d.chain :
            HasHop(map, from(i)) /\ d.chain[i] = HopEdge(map, from(i))
       /\ d.other_wait_reason =
            IF aux = {} THEN "none" ELSE other_wait_info_[from(Last(aux))].reason
       /\ \A i \in aux : d.chain[i].label.prefix = "cv-"
                         \/ d.chain[i].label.name \in {"join", "queue"}
       /\ ~d.has_cycle => ~HasHop(map, end)
       /\ d.has_cycle => d.chain # <<>>

\* C23: at each hop of deadlock_detection a waiting handle found in the helper
\* map takes precedence over the auxiliary wait; the auxiliary tid is followed
\* only when the handle is null or not in the map, with the label cv-<order
\* name>, join or queue of its reason, and that reason is reported in
\* other_wait_reason; when neither applies, or the target is not registered
\* or not waiting, the chain ends with has_cycle false.
C23_HopPrecedence ==
    \A tid \in TargetTids : \A map \in mutex_to_tid :
        /\ FollowsHops(tid, map, deadlock_detection(tid, map))
        /\ ~HasHop(map, tid) =>
              deadlock_detection(tid, map) = deadlock_info_t(tid)

\* Thread 1 is inside a join scope naming the unregistered tid and blocked on
\* a mutex in thread 2's held stack: the chain goes to thread 2 only.
C23_Witness ==
    /\ Running /\ pc[1] = "m_lock"
    /\ other_wait_info_[1].tid = 3 /\ other_wait_info_[1].reason = "join"
    /\ \A map \in mutex_to_tid :
          /\ HandleFound(map, 1)
          /\ deadlock_detection(1, map).chain =
                <<[tid |-> 2, label |-> [prefix |-> "",
                                         name |-> order_name(MutexOrderOf[arg[1]])]]>>
          /\ deadlock_detection(1, map).other_wait_reason = "none"

\* Thread 1 is inside a queue scope naming thread 2 and blocked on a mutex
\* no held stack records: the chain follows the auxiliary wait.
C23_WitnessAux ==
    /\ Running /\ pc[1] = "m_lock"
    /\ other_wait_info_[1].tid = 2 /\ other_wait_info_[1].reason = "queue"
    /\ \A map \in mutex_to_tid :
          /\ ~HandleFound(map, 1)
          /\ deadlock_detection(1, map).chain[1] =
                [tid |-> 2, label |-> [prefix |-> "", name |-> "queue"]]
          /\ deadlock_detection(1, map).other_wait_reason = "queue"

\* C24: deadlock_detection terminates, and its chain has at most as many
\* entries as the registry has threads: every entry but the last names a
\* registered thread that is neither the target nor named by another entry,
\* so the visited set grows with every iteration that goes on.
C24_TerminatesBounded ==
    \A tid \in TargetTids : \A map \in mutex_to_tid :
        LET d == deadlock_detection(tid, map) IN
        /\ Len(d.chain) <= Cardinality(Threads)
        /\ \A i \in 1..(Len(d.chain) - 1) :
              /\ d.chain[i].tid \in Threads \ {tid}
              /\ \A j \in 1..(Len(d.chain) - 1) : i # j => d.chain[i].tid # d.chain[j].tid

\* A chain as long as the registry is large: through every thread and then
\* to a thread that waits for itself, or to a tid that is not registered.
C24_Witness ==
    \E tid \in Threads : \E map \in mutex_to_tid :
        LET d == deadlock_detection(tid, map) IN
        /\ Len(d.chain) = Cardinality(Threads)
        /\ \/ d.has_cycle /\ d.chain[Len(d.chain)].tid # tid
           \/ d.chain[Len(d.chain)].tid \notin Threads

\* Thread t is between the constructor and the destructor of the
\* cv_wait_scoped_stat object of a condition wait.
CvWaiting(t) == pc[t] \in {"cv_release", "cv_sleep", "cv_dtor"}

\* C25: a condition wait that starts takes the mutex out of the thread's held
\* stack, sets its auxiliary wait info to (cv, order of the mutex, notifier
\* tid) and adds one to the order's unlocks; until the wait returns the held
\* stack and the auxiliary wait info stay so; when it returns the mutex is on
\* top of the held stack, the auxiliary tid is invalid and the order's locks
\* has grown by one.
C25_CvWaitBrackets ==
    /\ [][\A t \in Threads :
            /\ \A m \in Mutexes : \A n \in Notifiers(t) :
                  (cv_wait(t, m, n) /\ fatal' = "none") =>
                      /\ CvWaiting(t)' /\ arg'[t] = m
                      /\ other_wait_info_'[t] =
                            [tid |-> n, reason |-> "cv", order |-> MutexOrderOf[m]]
                      /\ unlocks' = [unlocks EXCEPT ![MutexOrderOf[m]] = @ + 1]
                      /\ locks' = locks
            /\ (CvWaiting(t) /\ CvWaiting(t)') =>
                  /\ other_wait_info_'[t] = other_wait_info_[t]
                  /\ pairs_'[t] = pairs_[t] /\ arg'[t] = arg[t]
            /\ cv_dtor(t) =>
                  /\ top(pairs_'[t], 0) = Pair(arg[t], MutexOrderOf[arg[t]])
                  /\ other_wait_info_'[t].tid = kInvalidTid
                  /\ locks' = [locks EXCEPT ![MutexOrderOf[arg[t]]] = @ + 1]
                  /\ unlocks' = unlocks]_vars
    /\ [](\A t \in Threads :
            CvWaiting(t) => arg[t] \notin Handles(pairs_[t]))

\* A condition wait naming a notifier has returned: the mutex is on top of
\* the held stack again and the auxiliary tid is invalid.
C25_Witness ==
    \E t \in Threads : \E m \in Mutexes :
        /\ Running /\ ~os_misuse /\ pc[t] = "idle"
        /\ other_wait_info_[t] =
              [tid |-> kInvalidTid, reason |-> "cv", order |-> MutexOrderOf[m]]
        /\ top(pairs_[t], 0) = Pair(m, MutexOrderOf[m])
        /\ \E o \in Orders : unlocks[o] >= 1 /\ locks[o] >= 2

\* The innermost live wait scope of thread t.
InnermostScope(t) == wait_scope[t][Len(wait_scope[t])]

ScopeInfoSet(t) ==
    /\ other_wait_info_[t].reason = InnermostScope(t).reason
    /\ other_wait_info_[t].tid = InnermostScope(t).tid

\* C26 as the specification states it: while a join or queue wait scope of a
\* thread is alive, the thread's auxiliary wait info is the scope's (reason,
\* tid), whatever the thread does inside the scope.
C26_AsStated ==
    \A t \in Threads : wait_scope[t] # <<>> => ScopeInfoSet(t)

\* A step of thread t that is no part of a condition wait and neither opens
\* nor closes a wait scope.
PlainStep(t) ==
    /\ ~CvWaiting(t) /\ ~CvWaiting(t)'
    /\ wait_scope'[t] = wait_scope[t]

\* C26: the constructor of a join or queue wait scope sets the thread's
\* auxiliary wait info to (join, tid) or (queue, tid); lock and unlock calls
\* of the thread and all steps of other threads leave it so; the destructor
\* makes the auxiliary tid invalid.  One slot holds the auxiliary wait: a
\* condition wait or a nested scope inside the scope overwrites it, and when
\* that ends the tid is invalid although the outer scope is alive.
C26_ScopeSetsAuxWait ==
    [][\A t \in Threads :
          /\ \A tid \in WaitTids :
                /\ scoped_join_wait_check(t, tid) =>
                      (other_wait_info_'[t].reason = "join"
                       /\ other_wait_info_'[t].tid = tid)
                /\ scoped_queue_wait_check(t, tid) =>
                      (other_wait_info_'[t].reason = "queue"
                       /\ other_wait_info_'[t].tid = tid)
          /\ PlainStep(t) => other_wait_info_'[t] = other_wait_info_[t]
          /\ scoped_wait_check_dtor(t) => other_wait_info_'[t].tid = kInvalidTid]_vars

\* Thread 1 opened a queue scope naming thread 2 and, inside it, is blocked
\* in lock(): its auxiliary wait info is still (queue, 2).
C26_Witness ==
    /\ Running /\ pc[1] = "m_lock"
    /\ wait_scope[1] = <<[reason |-> "queue", tid |-> 2]>>
    /\ ScopeInfoSet(1)

\* The descriptor of thread t: its thread_mutex_info.
Descriptor(t) == <<mutex_wait_[t], other_wait_info_[t], pairs_[t], true_top_[t]>>

\* The step is a step of an instrumented operation executed by thread t.
StepOf(t) ==
    \/ \E m \in Mutexes : lock(t, m)
    \/ \E m \in Mutexes, timeout_ns \in Timeouts : try_lock(t, m, timeout_ns)
    \/ ls_ctor_waits(t) \/ ls_ctor_reset_waiter(t)
    \/ m_lock(t) \/ m_lock_self(t)
    \/ timedlock_acquire(t) \/ timedlock_expire(t)
    \/ ls_dtor(t) \/ post_lock(t)
    \/ \E m \in Mutexes : unlock(t, m)
    \/ m_unlock(t)
    \/ \E m \in Mutexes : \E n \in Notifiers(t) : cv_wait(t, m, n)
    \/ cv_release(t) \/ cv_stop_waiting(t) \/ cv_wake(t) \/ cv_dtor(t)
    \/ \E tid \in WaitTids : scoped_join_wait_check(t, tid)
    \/ \E tid \in WaitTids : scoped_queue_wait_check(t, tid)
    \/ scoped_wait_check_dtor(t)

C28_AsStated == fatal \notin {"order", "recursion"}

\* ---------------------------------------------------------------------------
\* C29 as the specification states it, for its timed acquisitions: while a
\* thread is blocked inside unique_lock::try_lock_for or try_lock_until on a
\* mutex another thread owns, the mutex is the thread's waiting handle, as it
\* is while the thread is blocked inside mutex try_lock(timeout_ns > 0).
C29_AsStated ==
    \A t \in Threads :
        (pc[t] = "ul_try_lock_for" /\ m_[arg[t]] \notin {kInvalidTid, t})
            => mutex_wait_[t] = arg[t]

\* ---------------------------------------------------------------------------
\* C30 as the specification states it: when add_to_registry(descriptor) has
\* been followed by remove_from_registry(descriptor.tid), the key set of the
\* registry is the key set before the add, whether or not the tid was a key
\* before the add.
C30_AsStated ==
    round_trip.stage = "removed" => DOMAIN registry_ = round_trip.keys

\* What add followed by remove does to the keys: the tid is no key afterwards
\* and every other key is kept, so the key set is the one before the add
\* exactly when the tid was no key then.
RoundTripDropsTid ==
    round_trip.stage = "removed" => DOMAIN registry_ = round_trip.keys \ {round_trip.tid_}

\* ---------------------------------------------------------------------------
\* C31: add_to_registry of a descriptor whose tid is a key already returns
\* false, leaves registry_ as it was (the descriptor registered before stays)
\* and raises no fatal; remove_from_registry of a tid that is no key returns
\* false, leaves registry_ as it was and raises no fatal.
C31_DuplicateAndMissing ==
    [][/\ \A tminfo \in Descriptors :
            (add_to_registry(tminfo) /\ tminfo.tid_ \in DOMAIN registry_)
                => /\ registry_ret'.add_to_registry = "false"
                   /\ registry_' = registry_
                   /\ fatal' = "none"
       /\ \A tid \in RegistryTids :
            (remove_from_registry(tid) /\ tid \notin DOMAIN registry_)
                => /\ registry_ret'.remove_from_registry = "false"
                   /\ registry_' = registry_
                   /\ fatal' = "none"]_vars

\* An add of another descriptor for a registered tid and a remove of an
\* unregistered tid have both returned false.
C31_Witness ==
    /\ registry_ret.add_to_registry = "false"
    /\ registry_ret.remove_from_registry = "false"
    /\ \E k \in DOMAIN registry_ : registry_[k].id = 1

\* ---------------------------------------------------------------------------
\* C32 as the specification states it: whenever a thread evaluates the
\* predicate of a condition wait after a wake-up, having re-acquired the
\* mutex, the mutex is in the thread's held stack.
C32_AsStated ==
    \A t \in Threads :
        (pc[t] = "cv_predicate" /\ m_[arg[t]] = t) => arg[t] \in Handles(pairs_[t])

\* ---------------------------------------------------------------------------
\* C33: a remove(handle) that returns failure leaves the entries of the held
\* stack, its physical size and its logical size as they were: for every
\* handle on every reachable stack, and in every unlock and every condition
\* wait whose remove fails.
C33_FailedRemoveKeepsStack ==
    /\ [](\A t \in Threads, m \in Mutexes :
            LET r == remove(pairs_[t], true_top_[t], m) IN
              ~r.ok => /\ r.pairs = pairs_[t]
                       /\ Len(r.pairs) = Len(pairs_[t])
                       /\ r.true_top = true_top_[t])
    /\ [][\A t \in Threads, m \in Mutexes :
            ((unlock(t, m) \/ \E n \in Notifiers(t) : cv_wait(t, m, n))
               /\ ~remove(pairs_[t], true_top_[t], m).ok)
              => pairs_' = pairs_ /\ true_top_' = true_top_]_vars

\* Thread 1, holding a mutex, has made an unlock of a mutex it does not hold:
\* the remove went past the empty-stack test, found nothing and failed.
C33_Witness ==
    /\ fatal = "invalid_unlock"
    /\ budget[2] = 1 /\ pc[2] = "idle"
    /\ Len(pairs_[1]) > 0
    /\ true_top_[1] = Len(pairs_[1])

\* ---------------------------------------------------------------------------
\* The handles a reader finds below the physical top of the stack being
\* removed from.
Visible == {removing.pairs[j].first : j \in 0..(removing.top - 1)}

\* C34: at every step of a remove, every handle that was in the stack at the
\* call, other than the one being removed, is in a slot below the physical
\* top: a reader may see a handle twice but misses none that stays held.
C34_NoMissingEntry ==
    removing.pc # "none" => (removing.handles \ {removing.item}) \subseteq Visible

\* A remove of the bottom entry of a full stack has written the first half of
\* a pair: the slot holds the handle of the entry above with the order of the
\* entry being removed, and the handle is visible in two slots.
C34_Witness ==
    /\ removing.pc = "second"
    /\ removing.i = 0
    /\ removing.top = RemoveDepth
    /\ removing.pairs[0].first = removing.pairs[1].first
    /\ removing.pairs[0].second # removing.pairs[1].second

\* The stepwise remove ends with what the remove operator computes at once.
RemoveStepsAgree ==
    removing.pc = "return" =>
        LET st == removing.at_call
            r == remove([j \in 1..st.top |-> st.pairs[j - 1]], st.true_top, removing.item)
        IN /\ r.ok = removing.ok
           /\ r.true_top = removing.true_top
           /\ r.pairs = [j \in 1..removing.top |-> removing.pairs[j - 1]]

\* ---------------------------------------------------------------------------
\* A thread is between the constructor and the destructor of the
\* lock_scoped_stat of a contended lock or of a timed try_lock of its argument.
InLockScopedStat(t) == pc[t] \in {"m_lock", "timedlock", "ls_dtor"}

\* C35 as the specification states it: the waiting handle of a thread is
\* non-null only inside the contended path of lock or a timed try_lock of that
\* mutex, it is null when the thread is in no call, and it never names a mutex
\* that is in the thread's held stack.
C35_AsStated ==
    \A t \in Threads :
        /\ mutex_wait_[t] # NullHandle => (InLockScopedStat(t) /\ arg[t] = mutex_wait_[t])
        /\ pc[t] = "idle" => mutex_wait_[t] = NullHandle
        /\ mutex_wait_[t] # NullHandle => mutex_wait_[t] \notin Handles(pairs_[t])

\* The first two parts of C35.
WaiterOnlyInLockScopedStat ==
    \A t \in Threads :
        /\ mutex_wait_[t] # NullHandle => (InLockScopedStat(t) /\ arg[t] = mutex_wait_[t])
        /\ pc[t] = "idle" => mutex_wait_[t] = NullHandle

\* ---------------------------------------------------------------------------
\* An agent is at the lock_guard of a registry operation, or in its body.
AtRegistryLockGuard(a) == agent_pc[a] \in {"add_lock", "remove_lock", "copy_lock"}
InRegistryBody(a) == agent_pc[a] \in {"add", "remove", "copy"}

SameOrderWait(t) ==
    /\ pc[t] = "m_lock"
    /\ \E i \in DOMAIN pairs_[t] :
           /\ pairs_[t][i].second = MutexOrderOf[arg[t]]
           /\ pairs_[t][i].first # arg[t]

\* C37 as stated: with all abort flags on, no held-stack overflow and no
\* condition wait, while no fatal is raised the mutex wait-for graph among the
\* threads never contains a cycle.
C37_AsStated ==
    (Running /\ \A t \in Threads : ~overflowed[t])
        => \A c \in CycleOrders : ~WaitCycle(c)

\* C37: with all abort flags on, no held-stack overflow and no condition
\* wait, while no fatal is raised every cycle of the mutex wait-for graph
\* contains a thread that is locking a mutex of the same order as another
\* mutex it holds; threads that lock in strictly ascending order never form a
\* cycle.
C37_CycleNeedsSameOrder ==
    (Running /\ \A t \in Threads : ~overflowed[t])
        => \A c \in CycleOrders :
               WaitCycle(c) => \E i \in DOMAIN c : SameOrderWait(c[i])

\* Two threads without overflow wait for each other's mutex; each holds one
\* mutex of the order it is locking.
C37_Witness ==
    /\ Running
    /\ \A t \in Threads : ~overflowed[t]
    /\ \E c \in CycleOrders :
           /\ WaitCycle(c)
           /\ \A i \in DOMAIN c : SameOrderWait(c[i])

\* ---------------------------------------------------------------------------
\* C38: registry entries over thread start, exit, snapshots and tid reuse

\* C38 as stated: every thread that owns a live descriptor is in the registry
\* under its tid with an entry that refers to its own descriptor, and the
\* registry has no entry that refers to a destroyed descriptor.
C38_AsStated ==
    /\ \A w \in Workers :
           agent_pc[w] = "live" =>
               /\ thread_tid[w] \in DOMAIN registry_
               /\ registry_[thread_tid[w]] = thread_tminfo[w]
    /\ \A k \in DOMAIN registry_ : registry_[k] \notin destroyed

\* ---------------------------------------------------------------------------
\* FdToString: a pipe whose write end is handed to writers and whose read end
\* is drained by an asynchronous reader task that builds the string `out`.
\* Bytes are their character codes.
MaxData == 4

Newline == 10
npos == -1
sizeof_buf == 4096

\* The bytes the writers write: '\n' and 'a'.
Alphabet == {Newline, 97}

\* The prefixes createWriter is called with: none, and the default "- ".
Prefixes == {<<>>, <<45, 32>>}

\* The byte strings of length 1 .. n.
Chunks(n) == UNION {[1..k -> Alphabet] : k \in 1..n}

\* std::string_view::find('\n', 0): the 0-based index of the first '\n', or npos.
find(sv) ==
    IF \E i \in DOMAIN sv : sv[i] = Newline
    THEN (CHOOSE i \in DOMAIN sv : sv[i] = Newline /\ \A j \in 1..(i - 1) : sv[j] # Newline) - 1
    ELSE npos

\* std::string_view::remove_prefix(n)
remove_prefix(sv, n) == SubSeq(sv, n + 1, Len(sv))

\* The inner while loop of the reader task: every line of sv that ends within
\* sv is appended to out, after the prefix if requiresPrefix is set.
RECURSIVE append_lines(_, _, _)
append_lines(o, rp, sv) ==
    LET ind == find(sv) IN
    IF ind = npos THEN [out |-> o, requiresPrefix |-> rp, sv |-> sv]
    ELSE append_lines((IF rp THEN o \o prefix ELSE o) \o SubSeq(sv, 1, ind + 1),
                      TRUE, remove_prefix(sv, ind + 1))

\* The reader task's handling of the bytes of one read().
append_read(o, rp, sv) ==
    IF prefix # <<>>
    THEN LET r == append_lines(o, rp, sv) IN
         IF Len(r.sv) > 0
         THEN [out |-> r.out \o r.sv, requiresPrefix |-> FALSE]
         ELSE [out |-> r.out, requiresPrefix |-> r.requiresPrefix]
    ELSE [out |-> o \o sv, requiresPrefix |-> rp]

\* FdToString::createWriter: the pipe is made and the reader task launched.
createWriter(prefix_) ==
    /\ writeFd = "none"
    /\ writeFd' = "open"
    /\ prefix' = prefix_
    /\ out' = <<>>
    /\ requiresPrefix' = TRUE
    /\ reader' = "polling"
    /\ UNCHANGED <<mutexVars, registryVars, removing, lifecycleVars, spdifVars,
                   pipe, written, broke_early>>

\* A writer writes bytes to the borrowed fd.
fd_write(bytes) ==
    /\ writeFd = "open"
    /\ reader = "polling"
    /\ Len(written) + Len(bytes) <= MaxData
    /\ pipe' = pipe \o bytes
    /\ written' = written \o bytes
    /\ UNCHANGED <<mutexVars, registryVars, removing, lifecycleVars, spdifVars,
                   writeFd, prefix, out, requiresPrefix, reader, broke_early>>

\* One turn of the reader's loop with data available: poll reports POLLIN,
\* read() returns red bytes, which are appended to out.
reader_read(red) ==
    /\ reader = "polling"
    /\ red >= 1 /\ red <= Len(pipe) /\ red <= sizeof_buf
    /\ LET r == append_read(out, requiresPrefix, SubSeq(pipe, 1, red)) IN
         /\ out' = r.out
         /\ requiresPrefix' = r.requiresPrefix
    /\ pipe' = SubSeq(pipe, red + 1, Len(pipe))
    /\ UNCHANGED <<mutexVars, registryVars, removing, lifecycleVars, spdifVars,
                   writeFd, prefix, reader, written, broke_early>>

\* The write end is closed and the pipe drained: poll reports no POLLIN and
\* the reader returns out.
reader_hangup ==
    /\ reader = "polling"
    /\ writeFd = "closed"
    /\ pipe = <<>>
    /\ reader' = "returned"
    /\ UNCHANGED <<mutexVars, registryVars, removing, lifecycleVars, spdifVars,
                   writeFd, prefix, pipe, out, requiresPrefix, written, broke_early>>

\* The deadline passes, or poll or read fails: the reader returns what it has.
reader_break ==
    /\ reader = "polling"
    /\ reader' = "returned"
    /\ broke_early' = TRUE
    /\ UNCHANGED <<mutexVars, registryVars, removing, lifecycleVars, spdifVars,
                   writeFd, prefix, pipe, out, requiresPrefix, written>>

\* FdToString::closeWriterAndGetString: mWriteFd.reset(); the string it
\* returns is out once the reader has returned.
closeWriterAndGetString ==
    /\ writeFd = "open"
    /\ writeFd' = "closed"
    /\ UNCHANGED <<mutexVars, registryVars, removing, lifecycleVars, spdifVars,
                   prefix, pipe, out, requiresPrefix, reader, written, broke_early>>

NextFdToString ==
    \/ \E prefix_ \in Prefixes : createWriter(prefix_)
    \/ \E bytes \in Chunks(MaxData) : fd_write(bytes)
    \/ \E red \in 1..MaxData : reader_read(red)
    \/ reader_hangup
    \/ reader_break
    \/ closeWriterAndGetString

SpecFdToString == Init /\ [][NextFdToString]_vars

\* data with the prefix p inserted at the start of every line, from the byte
\* at index i on.
RECURSIVE PrefixedFrom(_, _, _)
PrefixedFrom(data, p, i) ==
    IF i > Len(data) THEN <<>>
    ELSE (IF i = 1 \/ data[i - 1] = Newline THEN p ELSE <<>>)
             \o <<data[i]>> \o PrefixedFrom(data, p, i + 1)

\* C39 as stated: when the reader has drained the pipe and returned, the
\* string is the written data with the prefix inserted at the start of every
\* line, however the bytes were split across the reads.
C39_AsStated ==
    (reader = "returned" /\ ~broke_early) => out = PrefixedFrom(written, prefix, 1)

\* The case of C39 in which every written line is terminated by '\n'.
C39_TerminatedLines ==
    (reader = "returned" /\ ~broke_early /\ written # <<>>
        /\ written[Len(written)] = Newline)
        => out = PrefixedFrom(written, prefix, 1)

\* ---------------------------------------------------------------------------
\* SPDIFEncoder: write() wraps the encoded frames the frame scanner finds into
\* data bursts, which it assembles in mBurstBuffer at mByteCursor.  size_t
\* is an unsigned integer of values 0 .. SIZE_MAX.
SIZE_MAX == 63
MaxSampleFramesPerSyncFrame == 4

sizeof_uint16_t == 2
kSpdifEncodedChannelCount == 2
preambleSize == 8

\* size_t arithmetic
size_t(n) == n % (SIZE_MAX + 1)

\* The constructor's mBurstBufferSizeBytes; mBurstBuffer has half as many
\* uint16_t elements.
mBurstBufferSizeBytes ==
    sizeof_uint16_t * kSpdifEncodedChannelCount * MaxSampleFramesPerSyncFrame

\* What the frame scanner reports as header size and frame size, and the
\* sizes write() is called with.
ScannerSizes == {0, 1, 2, 5, preambleSize, preambleSize + 1, SIZE_MAX}
WriteSizes == {1, 2, 5, mBurstBufferSizeBytes + 4}

\* The encoder within a step of write(): its fields and the record of its
\* accesses to mBurstBuffer.
Encoder ==
    [cursor |-> mByteCursor, pending |-> mPayloadBytesPending, scanning |-> mScanning,
     stores |-> {}, loads |-> {}, dropped |-> FALSE, high |-> mByteCursor]

\* An assignment to mByteCursor.
set_cursor(e, c) == [e EXCEPT !.cursor = c, !.high = IF c > @ THEN c ELSE @]

\* wouldOverflowBuffer computing mByteCursor + numBytes in size_t.
wouldOverflowBuffer_by_sum(cursor, numBytes) ==
    size_t(cursor + numBytes) > mBurstBufferSizeBytes

\* SPDIFEncoder::wouldOverflowBuffer
wouldOverflowBuffer(cursor, numBytes) ==
    \/ numBytes > mBurstBufferSizeBytes
    \/ cursor > size_t(mBurstBufferSizeBytes - numBytes)

\* SPDIFEncoder::clearBurstBuffer: memset of the whole buffer, mByteCursor = 0.
clearBurstBuffer(e) ==
    [e EXCEPT !.cursor = 0,
              !.stores = @ \cup {i \in 0..SIZE_MAX : 2 * i < mBurstBufferSizeBytes}]

\* SPDIFEncoder::reset
reset(e) == [clearBurstBuffer(e) EXCEPT !.pending = 0, !.scanning = TRUE]

\* SPDIFEncoder::writeBurstBufferShorts
writeBurstBufferShorts(e, numShorts) ==
    LET even == set_cursor(e, size_t(((e.cursor + 1) \div 2) * 2))
        bytesToWrite == size_t(numShorts * sizeof_uint16_t)
    IN  IF wouldOverflowBuffer(even.cursor, bytesToWrite)
        THEN [reset(even) EXCEPT !.dropped = TRUE]
        ELSE [set_cursor(even, size_t(even.cursor + bytesToWrite)) EXCEPT
                 !.stores = @ \cup {(even.cursor \div 2) + k : k \in 0..(numShorts - 1)}]

\* SPDIFEncoder::writeBurstBufferBytes: the first byte of a uint16_t goes to
\* pad, the second stores the element; a last odd byte stores it as well.
writeBurstBufferBytes(e, numBytes) ==
    IF wouldOverflowBuffer(e.cursor, numBytes)
    THEN [clearBurstBuffer(e) EXCEPT !.dropped = TRUE]
    ELSE IF numBytes = 0 THEN e
    ELSE LET end == size_t(e.cursor + numBytes) IN
         [set_cursor(e, end) EXCEPT
             !.loads = @ \cup {e.cursor \div 2},
             !.stores = @ \cup {c \div 2 : c \in {d \in e.cursor..(e.cursor + numBytes - 1) : d % 2 = 1}}
                          \cup (IF end % 2 = 1 THEN {end \div 2} ELSE {})]

\* SPDIFEncoder::sendZeroPad, the scanner reporting frames sample frames per
\* sync frame.
sendZeroPad(e, frames) ==
    LET burstSize == size_t(frames * sizeof_uint16_t * kSpdifEncodedChannelCount) IN
    IF e.cursor > burstSize THEN clearBurstBuffer(e)
    ELSE set_cursor(e, burstSize)

\* SPDIFEncoder::flushBurstBuffer: the length code is stored in element 3,
\* the burst is padded and handed to writeOutput, the encoder is reset.
flushBurstBuffer(e, frames) ==
    IF e.cursor > preambleSize
    THEN LET padded == sendZeroPad([e EXCEPT !.stores = @ \cup {3}], frames) IN
         reset([padded EXCEPT
                   !.loads = @ \cup {i \in 0..SIZE_MAX : 2 * i < padded.cursor}])
    ELSE reset(e)

\* SPDIFEncoder::startDataBurst: the preamble of 4 uint16_t.
startDataBurst(e) == writeBurstBufferShorts(e, 4)

\* SPDIFEncoder::startSyncFrame; its result is assigned to mPayloadBytesPending.
startSyncFrame(e, headerSize, frameSize) ==
    [writeBurstBufferBytes(e, headerSize) EXCEPT
        !.pending = IF frameSize < headerSize THEN 0 ELSE frameSize - headerSize]

\* The step has run e: the fields are stored, the accesses recorded.
Encoded(e) ==
    /\ mByteCursor' = e.cursor
    /\ mPayloadBytesPending' = e.pending
    /\ mScanning' = e.scanning
    /\ burst' = [stores |-> e.stores, loads |-> e.loads, dropped |-> e.dropped,
                 high |-> e.high]

\* SPDIFEncoder::write is called with numBytes bytes.
write(numBytes) ==
    /\ bytesLeft = 0
    /\ bytesLeft' = numBytes
    /\ burst' = NoBurst
    /\ UNCHANGED <<mutexVars, registryVars, removing, lifecycleVars, fdVars,
                   mByteCursor, mPayloadBytesPending, mScanning>>

\* One turn of the loop of write() while scanning: the scanner takes a byte;
\* when it reports a frame, the burst is started (after the previous one is
\* flushed if the frame is the first of a burst) and the header appended.
write_scan(found, isFirstInBurst, headerSize, frameSize, frames) ==
    /\ bytesLeft > 0
    /\ mScanning
    /\ LET e == Encoder
           started == IF e.cursor = 0 THEN startDataBurst(e)
                      ELSE IF isFirstInBurst THEN startDataBurst(flushBurstBuffer(e, frames))
                      ELSE e
       IN  IF found
           THEN Encoded([startSyncFrame(started, headerSize, frameSize) EXCEPT
                            !.scanning = FALSE])
           ELSE Encoded(e)
    /\ bytesLeft' = bytesLeft - 1
    /\ UNCHANGED <<mutexVars, registryVars, removing, lifecycleVars, fdVars>>

\* One turn of the loop of write() while not scanning: payload is appended up
\* to the end of the frame; at its end the burst is flushed if the frame is
\* the last of the burst.
write_payload(isLastInBurst, frames) ==
    /\ bytesLeft > 0
    /\ ~mScanning
    /\ LET bytesToWrite == IF bytesLeft > mPayloadBytesPending
                           THEN mPayloadBytesPending ELSE bytesLeft
           w == writeBurstBufferBytes(Encoder, bytesToWrite)
           e == [w EXCEPT !.pending = size_t(w.pending - bytesToWrite)]
       IN  /\ bytesLeft' = bytesLeft - bytesToWrite
           /\ IF e.pending = 0
              THEN Encoded([(IF isLastInBurst THEN flushBurstBuffer(e, frames) ELSE e)
                               EXCEPT !.scanning = TRUE])
              ELSE Encoded(e)
    /\ UNCHANGED <<mutexVars, registryVars, removing, lifecycleVars, fdVars>>

NextSPDIF ==
    \/ \E numBytes \in WriteSizes : write(numBytes)
    \/ \E found, isFirstInBurst \in BOOLEAN, headerSize, frameSize \in ScannerSizes,
          frames \in 1..MaxSampleFramesPerSyncFrame :
           write_scan(found, isFirstInBurst, headerSize, frameSize, frames)
    \/ \E isLastInBurst \in BOOLEAN, frames \in 1..MaxSampleFramesPerSyncFrame :
           write_payload(isLastInBurst, frames)

SpecSPDIF == Init /\ [][NextSPDIF]_vars

\* C40: mByteCursor never exceeds mBurstBufferSizeBytes, at the end of a step
\* of write() and within it; every store into mBurstBuffer (and every load
\* from it) is at an element inside the buffer; and when an append was refused
\* because it would overflow, mByteCursor was set to 0.
C40_CursorInsideBuffer ==
    /\ mByteCursor <= mBurstBufferSizeBytes
    /\ burst.high <= mBurstBufferSizeBytes
    /\ \A i \in burst.stores \cup burst.loads : 2 * i + 1 < mBurstBufferSizeBytes
    /\ burst.dropped => mByteCursor = 0

\* An append that would overflow a buffer filled beyond the preamble has been
\* dropped within a frame.
C40_Witness ==
    /\ burst.dropped
    /\ burst.high > preambleSize
    /\ mByteCursor = 0
    /\ ~mScanning
    /\ mPayloadBytesPending > 0

====
